---------------------------- MODULE Spec2Model ----------------------------
(***************************************************************************)
(* A model of the PriceBattle bot (paulgnz/pricebattle-bots).              *)
(*                                                                         *)
(* Three parts of the program are modelled, each with its own              *)
(* specification over the shared variables:                                *)
(*                                                                         *)
(*   SpecPerformance  the performance ledger of src/db/queries.ts          *)
(*                    (daily rows, streak columns, confidence buckets);    *)
(*   SpecRpc          the failover RPC client (RpcClient.withFailover on   *)
(*                    top of utils/retry.ts withRetry) and the             *)
(*                    TransactionSigner that submits ledger writes;        *)
(*   SpecQuery        the wager queries of services/challenges.ts.         *)
(***************************************************************************)
EXTENDS Integers, Sequences, FiniteSets, TLC

(***************************************************************************)
(* Bounds of the model.                                                    *)
(***************************************************************************)
\* calendar days 1..MaxDay
MaxDay == 2
\* operations recorded on the performance ledger in one behaviour
MaxOps == 3
\* amounts recorded are 1..MaxAmount
MaxAmount == 1
\* a client is configured with 1..MaxEndpoints endpoints when its calls run
\* one after the other, with 1..MaxOverlapEndpoints when they overlap
MaxEndpoints == 3
MaxOverlapEndpoints == 2
\* the ledger returns rows of the wagers 1..MaxWagers
MaxWagers == 2
\* the clock runs over 0..MaxTime, a wager's started_at over 0..MaxTime - 1
MaxTime == 2
\* a wager's duration is one of 1..MaxDuration
MaxDuration == 1

\* syncChallenges runs at most MaxSyncs times in one behaviour, on a ledger
\* of at most MaxMirrored wagers
MaxSyncs == 2
MaxMirrored == 1
\* the resolver runs at most MaxBatches batches in one behaviour, on a ledger
\* of at most MaxListed wagers
MaxBatches == 2
MaxListed == 2
\* and the clock then runs for MaxElapsed seconds
MaxElapsed == 1

VARIABLES
    \* ---- performance ledger (src/db/queries.ts) ----
    performance,            \* table performance: date -> row
    confidence_performance, \* table confidence_performance: bucket -> row
    today,                  \* the calendar day todayDate() returns
    \* history of the calls made, kept for stating the claims
    outcomes,               \* the wins ("W") and losses ("L") recorded, in order
    lastOp,                 \* the last operation of the ledger
    prevPerformance,        \* the performance table just before that operation
    opCount,                \* operations recorded so far
    recorded,               \* date -> the recordWin / recordLoss / recordTie calls made with it
    \* ---- failover RPC client and transaction signer ----
    endpoints,              \* this.endpoints.length; the endpoints are 0..endpoints-1
    currentIndex,           \* RpcClient.currentIndex
    rpc,                    \* RpcClient.rpc: the endpoint list of the JsonRpc object
    up,                     \* the endpoints whose transport answers at the moment
    calls,                  \* the logical call of each caller (withFailover/withRetry)
    signerRpc,              \* the endpoint list of the JsonRpc the signer's Api holds
    dryRun,                 \* TransactionSigner.dryRun
    write,                  \* the ledger write in progress (TransactionSigner.transact)
    \* ---- wager queries (src/services/challenges.ts) ----
    now,                    \* the clock nowSeconds() reads
    query,                  \* the query in progress
    \* ---- price conversion (utils priceToU64 / u64ToPrice) ----
    conv,                   \* a price, its u64 string and the price read back
    \* ---- price oracle (src/services/oracle.ts) ----
    feeds,                  \* table data of the oracles contract: feed -> row
    priceCall,              \* the getPrice call in progress
    \* ---- the wager table of the ledger and its local mirror ----
    remote,                 \* table challenges of the pricebattle contract: id -> row
    challenges,             \* table challenges of the local database: id -> row
    sync,                   \* the syncChallenges call in progress, and its history
    \* ---- resolver service (src/services/resolver.ts) ----
    batches,                \* the resolveAll / expireAll call of each invocation
    earned,                 \* wager id -> the earnings increments resolveAll made for it
    started,                \* batches started so far
    \* ---- trading policies (src/strategies) ----
    strategy,               \* the strategy object: its policy, risk config, lastCreateTime
    runs,                   \* the tick() call of each invocation
    config,                 \* the config row of the pricebattle contract
    balance,                \* the XPR balance of the bot's account
    history,                \* ticks started, clock jumps, times of the creates
    \* ---- the bot and the tables its callbacks append to (src/bot.ts) ----
    journal,                \* tables decisions and price_history, and the appends issued
    bot                     \* the PriceBattleBot: flags, timers, start() calls, recordPrice

perfVars == <<performance, confidence_performance, today, outcomes, lastOp,
              prevPerformance, opCount, recorded>>

rpcVars == <<endpoints, currentIndex, rpc, up, calls, signerRpc, dryRun, write>>

queryVars == <<now, query>>

convVars == <<conv>>

oracleVars == <<feeds, priceCall>>

ledgerVars == <<remote>>

syncVars == <<challenges, sync>>

resolverVars == <<batches, earned, started>>

tickVars == <<strategy, runs, config, balance, history>>

botVars == <<journal, bot>>

\* the parts added to the three above
extVars == <<convVars, oracleVars, ledgerVars, syncVars, resolverVars, tickVars,
            botVars>>

vars == <<perfVars, rpcVars, queryVars, extVars>>

\* what the steps of one part leave alone
notPerf == <<rpcVars, queryVars, extVars>>
notConv == <<perfVars, rpcVars, queryVars, oracleVars, ledgerVars, syncVars,
           resolverVars,
              tickVars, botVars>>
notOracle == <<perfVars, rpcVars, queryVars, convVars, ledgerVars, syncVars,
           resolverVars,
              tickVars, botVars>>
notLedger == <<perfVars, rpcVars, queryVars, convVars, oracleVars, syncVars,
           resolverVars,
              tickVars, botVars>>
notSync == <<perfVars, rpcVars, queryVars, convVars, oracleVars, ledgerVars,
           resolverVars,
              tickVars, botVars>>
notClock == <<perfVars, rpcVars, query, extVars>>

Max(a, b) == IF a >= b THEN a ELSE b
Min(a, b) == IF a <= b THEN a ELSE b

(***************************************************************************)
(* The performance table.  A row holds the columns of migrations 001 and   *)
(* 002; every column but the date has DEFAULT 0.                           *)
(***************************************************************************)
Dates == 1..MaxDay
Amounts == 1..MaxAmount

DefaultRow ==
    [wins |-> 0, losses |-> 0, ties |-> 0, total_won |-> 0, total_lost |-> 0,
     resolver_earnings |-> 0, current_streak |-> 0, best_win_streak |-> 0,
     worst_loss_streak |-> 0]

\* SELECT ... FROM performance WHERE date = ? returned a row
HasRow(perf, date) == date \in DOMAIN perf

\* the table with the row of `date` inserted or replaced
PutRow(perf, date, row) ==
    [d \in (DOMAIN perf) \cup {date} |-> IF d = date THEN row ELSE perf[d]]

\* ORDER BY date DESC LIMIT 1 (on a table that has a row)
LatestDate(perf) == CHOOSE d \in DOMAIN perf : \A e \in DOMAIN perf : e <= d

(***************************************************************************)
(* Confidence buckets.                                                     *)
(***************************************************************************)
\* the optional argument `confidence?: number` left out
NoConfidence == -1
Confidences == {NoConfidence, 90}
Buckets == {"low", "medium", "high", "very_high"}

getConfidenceBucket(confidence) ==
    IF confidence >= 90 THEN "very_high"
    ELSE IF confidence >= 75 THEN "high"
    ELSE IF confidence >= 60 THEN "medium"
    ELSE "low"

DefaultBucketRow ==
    [wins |-> 0, losses |-> 0, ties |-> 0, total_won |-> 0, total_lost |-> 0]

incrementConfidenceWin(cp, confidence, amount) ==
    LET bucket == getConfidenceBucket(confidence)
    IN  [cp EXCEPT ![bucket].wins = @ + 1, ![bucket].total_won = @ + amount]

incrementConfidenceLoss(cp, confidence, amount) ==
    LET bucket == getConfidenceBucket(confidence)
    IN  [cp EXCEPT ![bucket].losses = @ + 1, ![bucket].total_lost = @ + amount]

incrementConfidenceTie(cp, confidence) ==
    LET bucket == getConfidenceBucket(confidence)
    IN  [cp EXCEPT ![bucket].ties = @ + 1]

(***************************************************************************)
(* Streak tracking.                                                        *)
(***************************************************************************)
\* updateStreak with Math.max and Math.min exchanged
updateStreak_MinMaxSwapped(perf, isWin, date) ==
    LET existing == HasRow(perf, date)
        src == IF existing THEN perf[date]
               ELSE IF DOMAIN perf # {} THEN perf[LatestDate(perf)]
               ELSE DefaultRow
        cur == IF isWin
               THEN (IF src.current_streak >= 0 THEN src.current_streak + 1 ELSE 1)
               ELSE (IF src.current_streak <= 0 THEN src.current_streak - 1 ELSE -1)
        best == IF isWin THEN Min(src.best_win_streak, cur) ELSE src.best_win_streak
        worst == IF isWin THEN src.worst_loss_streak
                 ELSE Max(src.worst_loss_streak, cur)
        base == IF existing THEN perf[date] ELSE DefaultRow
    IN  PutRow(perf, date, [base EXCEPT !.current_streak = cur,
                                        !.best_win_streak = best,
                                        !.worst_loss_streak = worst])

\* DatabaseQueries.updateStreak: read the streak columns of the row of `date`
\* (of the most recent row when there is none, of nothing when the table is
\* empty), apply the outcome, and UPDATE or INSERT the row of `date`.
updateStreak(perf, isWin, date) ==
    LET existing == HasRow(perf, date)
        src == IF existing THEN perf[date]
               ELSE IF DOMAIN perf # {} THEN perf[LatestDate(perf)]
               ELSE DefaultRow
        cur == IF isWin
               THEN (IF src.current_streak >= 0 THEN src.current_streak + 1 ELSE 1)
               ELSE (IF src.current_streak <= 0 THEN src.current_streak - 1 ELSE -1)
        best == IF isWin THEN Max(src.best_win_streak, cur) ELSE src.best_win_streak
        worst == IF isWin THEN src.worst_loss_streak
                 ELSE Min(src.worst_loss_streak, cur)
        base == IF existing THEN perf[date] ELSE DefaultRow
    IN  PutRow(perf, date, [base EXCEPT !.current_streak = cur,
                                        !.best_win_streak = best,
                                        !.worst_loss_streak = worst])

\* DatabaseQueries.getCurrentStreak
getCurrentStreak(perf) ==
    IF DOMAIN perf = {} THEN 0 ELSE perf[LatestDate(perf)].current_streak

(***************************************************************************)
(* Aggregates of getTotalPerformance.                                      *)
(***************************************************************************)
RECURSIVE SumOver(_, _, _)
SumOver(perf, col, dates) ==
    IF dates = {} THEN 0
    ELSE LET d == CHOOSE x \in dates : TRUE
         IN  perf[d][col] + SumOver(perf, col, dates \ {d})

RECURSIVE MaxOver(_, _, _)
MaxOver(perf, col, dates) ==
    IF dates = {} THEN 0
    ELSE LET d == CHOOSE x \in dates : TRUE
             rest == dates \ {d}
         IN  IF rest = {} THEN perf[d][col]
             ELSE Max(perf[d][col], MaxOver(perf, col, rest))

RECURSIVE MinOver(_, _, _)
MinOver(perf, col, dates) ==
    IF dates = {} THEN 0
    ELSE LET d == CHOOSE x \in dates : TRUE
             rest == dates \ {d}
         IN  IF rest = {} THEN perf[d][col]
             ELSE Min(perf[d][col], MinOver(perf, col, rest))

\* winRate = wins / total * 100, kept as the exact fraction num/den
WinRate(wins, total) ==
    IF total > 0 THEN [num |-> wins * 100, den |-> total] ELSE [num |-> 0, den |-> 1]

\* DatabaseQueries.getPerformance(date)
getPerformance(perf, date) ==
    IF ~HasRow(perf, date)
    THEN [wins |-> 0, losses |-> 0, ties |-> 0, winRate |-> WinRate(0, 0),
          totalWon |-> 0, totalLost |-> 0]
    ELSE LET row == perf[date]
         IN  [wins |-> row.wins, losses |-> row.losses, ties |-> row.ties,
              winRate |-> WinRate(row.wins, row.wins + row.losses + row.ties),
              totalWon |-> row.total_won, totalLost |-> row.total_lost]

\* DatabaseQueries.getTotalPerformance
getTotalPerformance(perf) ==
    LET ds == DOMAIN perf
        wins == SumOver(perf, "wins", ds)
        losses == SumOver(perf, "losses", ds)
        ties == SumOver(perf, "ties", ds)
    IN  [wins |-> wins, losses |-> losses, ties |-> ties,
         winRate |-> WinRate(wins, wins + losses + ties),
         totalWon |-> SumOver(perf, "total_won", ds),
         totalLost |-> SumOver(perf, "total_lost", ds),
         resolverEarnings |-> SumOver(perf, "resolver_earnings", ds),
         currentStreak |-> IF ds = {} THEN 0
                           ELSE perf[LatestDate(perf)].current_streak,
         bestWinStreak |-> MaxOver(perf, "best_win_streak", ds),
         worstLossStreak |-> MinOver(perf, "worst_loss_streak", ds)]


(***************************************************************************)
(* The tables decisions and price_history.  Both are written by plain      *)
(* INSERT statements, run synchronously by the caller.  Beside the tables  *)
(* the journal counts what the callers have issued: the rows they passed   *)
(* to logDecision and to insertPrice, and the sum of the amounts they      *)
(* passed to incrementResolverEarnings.  No step of the model reads the    *)
(* two tables; a specification whose claims are about other state starts   *)
(* with a journal that is not kept, and the rows written are then left     *)
(* out of the state.                                                       *)
(***************************************************************************)
EmptyJournal ==
    [kept |-> TRUE, decisions |-> <<>>, price_history |-> <<>>,
     issued |-> [decisions |-> 0, prices |-> 0, earnings |-> 0]]

NoJournal == [EmptyJournal EXCEPT !.kept = FALSE]

\* DatabaseQueries.logDecision: the row is appended
logDecision(j, challengeId, action) ==
    IF ~j.kept THEN j
    ELSE [j EXCEPT !.decisions = Append(@, [challengeId |-> challengeId,
                                           action |-> action]),
                   !.issued.decisions = @ + 1]

\* DatabaseQueries.insertPrice; the row keeps the call that issued it
insertPrice(j, timestamp, by) ==
    IF ~j.kept THEN j
    ELSE [j EXCEPT !.price_history = Append(@, [timestamp |-> timestamp, by |-> by]),
                   !.issued.prices = @ + 1]

\* the amount a caller passes to incrementResolverEarnings
EarningsIssued(j, amount) ==
    IF ~j.kept THEN j ELSE [j EXCEPT !.issued.earnings = @ + amount]

(***************************************************************************)
(* The failover RPC client.                                                *)
(*                                                                         *)
(* JsonRpc and Api are @proton/js objects.  A JsonRpc is modelled by the   *)
(* list of endpoints it was built with, and a request made through it goes *)
(* to the first endpoint of that list.  The transport is the environment:  *)
(* an endpoint either answers a request or fails it.                       *)
(***************************************************************************)
\* the two periodic timers of PriceBattleBot.start, whose asynchronous work
\* may overlap on the one RpcClient
Callers == {"price", "strategy"}

\* the five ledger writes of PriceBattleActions
WriteOps == {"create", "accept", "cancel", "expire", "resolve"}

InitialDelay == 500
MaxDelay == 5000
BackoffMultiplier == 2

NoError == [endpoint |-> -1, attempt |-> -1]
NoRows == [endpoint |-> -1]

\* the rows endpoint e serves for the request
RowsOf(e) == [endpoint |-> e]
\* the transport error of attempt number `attempt` made on endpoint e
ErrorOf(e, attempt) == [endpoint |-> e, attempt |-> attempt]

\* withFailover passing one retry too many
FailoverMaxRetries_PlusOne(n) == n + 1

\* withFailover: maxRetries: this.endpoints.length
FailoverMaxRetries(n) == n

\* for (...; attempt <= opts.maxRetries; ...)
LoopContinues(attempt, maxRetries) == attempt <= maxRetries

\* if (attempt < opts.maxRetries) { await sleep(delay); ... }
SleepsBeforeRetry(attempt, maxRetries) == attempt < maxRetries

\* delay = Math.min(delay * opts.backoffMultiplier, opts.maxDelay)
NextDelay(delay) == Min(delay * BackoffMultiplier, MaxDelay)

\* withRetry keeping the first error instead of the last
CaughtError_KeepFirst(lastError, error) ==
    IF lastError = NoError THEN error ELSE lastError

\* lastError = error instanceof Error ? error : new Error(String(error))
CaughtError(lastError, error) == error

\* rotateEndpoint leaving the index where it is
rotateEndpoint_Stay(index, n) == index % n

\* rotateEndpoint skipping an endpoint
rotateEndpoint_Skip(index, n) == (index + 2) % n

\* rotateEndpoint: (this.currentIndex + 1) % this.endpoints.length
rotateEndpoint(index, n) == (index + 1) % n

\* the endpoint a request made through a JsonRpc object goes to
EndpointOf(jsonRpc) == Head(jsonRpc)

IdleCall ==
    [pc |-> "idle", attempt |-> 0, target |-> -1, delay |-> InitialDelay,
     lastError |-> NoError, result |-> NoRows, error |-> NoError,
     \* history of the call, kept for stating the claims
     targets |-> <<>>, failures |-> 0, alone |-> TRUE]

Active(call) == call.pc \in {"inflight", "sleeping"}

\* fn() is called: the request leaves through this.rpc as it is now
Invoked(call, jsonRpc) ==
    [call EXCEPT !.pc = "inflight",
                 !.target = EndpointOf(jsonRpc),
                 !.targets = Append(@, EndpointOf(jsonRpc))]

\* the top of the for loop of withRetry, with `attempt` already set
LoopTop(call, jsonRpc) ==
    IF LoopContinues(call.attempt, FailoverMaxRetries(endpoints))
    THEN Invoked(call, jsonRpc)
    ELSE [call EXCEPT !.pc = "thrown", !.error = call.lastError]

\* a caller starts a logical call (getTableRows, getCurrencyBalance,
\* getAccount): withFailover -> withRetry -> first fn()
CallStart(c) ==
    /\ calls[c].pc = "idle"
    /\ LET others == \E d \in Callers \ {c} : Active(calls[d])
           fresh == [IdleCall EXCEPT !.alone = ~others]
       IN  calls' = [d \in Callers |->
                        IF d = c THEN LoopTop(fresh, rpc)
                        ELSE IF Active(calls[d])
                             THEN [calls[d] EXCEPT !.alone = FALSE]
                             ELSE calls[d]]
    /\ UNCHANGED <<endpoints, currentIndex, rpc, up, signerRpc, dryRun, write>>

\* the request of the attempt in flight is answered: withRetry returns the
\* response and getTableRows its rows
AttemptOk(c) ==
    /\ calls[c].pc = "inflight"
    /\ calls[c].target \in up
    /\ calls' = [calls EXCEPT ![c].pc = "returned",
                              ![c].result = RowsOf(calls[c].target)]
    /\ UNCHANGED <<endpoints, currentIndex, rpc, up, signerRpc, dryRun, write>>

\* the request of the attempt in flight fails: the catch of withFailover
\* rotates and rethrows, the catch of withRetry records the error and either
\* sleeps or leaves the loop
AttemptFail(c) ==
    /\ calls[c].pc = "inflight"
    /\ calls[c].target \notin up
    /\ currentIndex' = rotateEndpoint(currentIndex, endpoints)
    /\ rpc' = <<currentIndex'>>
    /\ LET call == calls[c]
           caught == [call EXCEPT
                         !.lastError = CaughtError(call.lastError,
                                                   ErrorOf(call.target, call.attempt)),
                         !.failures = @ + 1]
       IN  calls' = [calls EXCEPT ![c] =
                        IF SleepsBeforeRetry(call.attempt, FailoverMaxRetries(endpoints))
                        THEN [caught EXCEPT !.pc = "sleeping"]
                        ELSE LoopTop([caught EXCEPT !.attempt = @ + 1], rpc')]
    /\ UNCHANGED <<endpoints, up, signerRpc, dryRun, write>>

\* the backoff sleep ends: the delay is scaled and the loop goes round
Wake(c) ==
    /\ calls[c].pc = "sleeping"
    /\ calls' = [calls EXCEPT ![c] =
                    LoopTop([calls[c] EXCEPT !.delay = NextDelay(@),
                                             !.attempt = @ + 1], rpc)]
    /\ UNCHANGED <<endpoints, currentIndex, rpc, up, signerRpc, dryRun, write>>

\* the caller has taken the rows or the error
CallEnd(c) ==
    /\ calls[c].pc \in {"returned", "thrown"}
    /\ calls' = [calls EXCEPT ![c] = IdleCall]
    /\ UNCHANGED <<endpoints, currentIndex, rpc, up, signerRpc, dryRun, write>>

\* an endpoint goes down or comes back
TransportChange ==
    /\ \E e \in 0..(endpoints - 1) :
           up' = IF e \in up THEN up \ {e} ELSE up \cup {e}
    /\ UNCHANGED <<endpoints, currentIndex, rpc, calls, signerRpc, dryRun, write>>

(***************************************************************************)
(* The transaction signer.  Every method of PriceBattleActions builds its  *)
(* actions and returns this.signer.transact(actions).                      *)
(***************************************************************************)
IdleWrite ==
    [pc |-> "idle", op |-> "none", target |-> -1, result |-> "none",
     error |-> NoError, attempts |-> 0, indexAtSubmit |-> -1]

\* transact submitting whatever the mode
TransactStart_IgnoreDryRun(op) ==
    /\ write.pc = "idle"
    /\ write' = [IdleWrite EXCEPT !.pc = "inflight", !.op = op,
                                  !.target = EndpointOf(signerRpc),
                                  !.attempts = 1,
                                  !.indexAtSubmit = currentIndex]
    /\ UNCHANGED <<endpoints, currentIndex, rpc, up, calls, signerRpc, dryRun>>

\* transact is called: in dry-run mode it returns the mock result at once,
\* otherwise it awaits this.api.transact, which submits through the JsonRpc
\* the Api was built with
TransactStart(op) ==
    /\ write.pc = "idle"
    /\ write' = IF dryRun
                THEN [IdleWrite EXCEPT !.pc = "returned", !.op = op,
                                       !.result = "dry_run",
                                       !.indexAtSubmit = currentIndex]
                ELSE [IdleWrite EXCEPT !.pc = "inflight", !.op = op,
                                       !.target = EndpointOf(signerRpc),
                                       !.attempts = 1,
                                       !.indexAtSubmit = currentIndex]
    /\ UNCHANGED <<endpoints, currentIndex, rpc, up, calls, signerRpc, dryRun>>

\* the submission is accepted: transact returns the result
TransactOk ==
    /\ write.pc = "inflight"
    /\ write.target \in up
    /\ write' = [write EXCEPT !.pc = "returned", !.result = "receipt"]
    /\ UNCHANGED <<endpoints, currentIndex, rpc, up, calls, signerRpc, dryRun>>

\* the submission fails: transact logs and rethrows
TransactFail ==
    /\ write.pc = "inflight"
    /\ write.target \notin up
    /\ write' = [write EXCEPT !.pc = "thrown", !.error = ErrorOf(write.target, 0)]
    /\ UNCHANGED <<endpoints, currentIndex, rpc, up, calls, signerRpc, dryRun>>

\* the caller has taken the result or the error
TransactEnd ==
    /\ write.pc \in {"returned", "thrown"}
    /\ write' = IdleWrite
    /\ UNCHANGED <<endpoints, currentIndex, rpc, up, calls, signerRpc, dryRun>>

\* the client and signer with nothing in progress
RpcQuiet ==
    /\ currentIndex = 0
    /\ calls = [c \in Callers |-> IdleCall]
    /\ write = IdleWrite

\* PriceBattleBot.initialize: new RpcClient(endpoints) builds a JsonRpc over
\* all the endpoints, and the signer's Api is built with that same object
RpcInit(maxEndpoints) ==
    /\ endpoints \in 1..maxEndpoints
    /\ rpc = [i \in 1..endpoints |-> i - 1]
    /\ signerRpc = rpc
    /\ up \in SUBSET (0..(endpoints - 1))
    /\ RpcQuiet

\* the client as the other specifications leave it
RpcIdle ==
    /\ endpoints = 1
    /\ rpc = <<0>>
    /\ signerRpc = <<0>>
    /\ up = {0}
    /\ dryRun = FALSE
    /\ RpcQuiet

\* the two timers' reads overlapping on the client while endpoints go down
\* and come back
RpcNext ==
    \/ \E c \in Callers : CallStart(c)
    \/ \E c \in Callers : AttemptOk(c)
    \/ \E c \in Callers : AttemptFail(c)
    \/ \E c \in Callers : Wake(c)
    \/ \E c \in Callers : CallEnd(c)
    \/ TransportChange

\* one tick's reads and writes, one after the other, against endpoints that
\* stay as they are
FailoverNext ==
    \/ CallStart("strategy")
    \/ AttemptOk("strategy")
    \/ AttemptFail("strategy")
    \/ Wake("strategy")
    \/ CallEnd("strategy")
    \/ \E op \in WriteOps : TransactStart(op)
    \/ TransactOk
    \/ TransactFail
    \/ TransactEnd

(***************************************************************************)
(* The wager queries of ChallengeService.  Every query pulls the wager     *)
(* table from the ledger (getAllChallenges) and filters the rows it got;   *)
(* the rows are whatever the ledger returns.                               *)
(***************************************************************************)
\* BATTLE_STATUS
OPEN == 0
ACTIVE == 1
RESOLVED == 2
CANCELLED == 3
EXPIRED == 4
TIE == 5
Statuses == {OPEN, ACTIVE, RESOLVED, CANCELLED, EXPIRED, TIE}

WagerIds == 1..MaxWagers

\* the fields of a Challenge row the queries read
WagerRows ==
    [status : Statuses, started_at : 0..(MaxTime - 1), duration : 1..MaxDuration]

\* the tables the ledger may return: a row for each wager of some set
WagerTables == UNION {[ids -> WagerRows] : ids \in SUBSET WagerIds}

\* all.filter((c) => c.status === BATTLE_STATUS.ACTIVE), as the ids kept
FilterActive(rows) == {id \in DOMAIN rows : rows[id].status = ACTIVE}

\* the resolvable filter comparing with > instead of >=
ReadyToResolve_Strict(c, t) == t > c.started_at + c.duration

\* const endTime = c.started_at + c.duration; return now >= endTime
ReadyToResolve(c, t) == t >= c.started_at + c.duration

\* active.filter(...) of getResolvableChallenges
FilterResolvable(rows, active, t) == {id \in active : ReadyToResolve(rows[id], t)}

IdleQuery ==
    [pc |-> "idle", kind |-> "none", rows |-> [id \in {} |-> 0], readAt |-> -1,
     result |-> {}]

QueryKinds == {"active", "resolvable"}

\* getActiveChallenges / getResolvableChallenges is called and awaits the
\* rows of getAllChallenges
QueryStart(kind) ==
    /\ query.pc = "idle"
    /\ query' = [IdleQuery EXCEPT !.pc = "fetching", !.kind = kind]
    /\ UNCHANGED now

\* the rows arrive and are filtered by status; getActiveChallenges returns
\* them, getResolvableChallenges goes on to read the clock
QueryRows ==
    /\ query.pc = "fetching"
    /\ \E rows \in WagerTables :
           query' = [query EXCEPT
                        !.pc = IF query.kind = "active" THEN "done" ELSE "filtering",
                        !.rows = rows,
                        !.result = FilterActive(rows)]
    /\ UNCHANGED now

\* getResolvableChallenges: const now = nowSeconds(); return active.filter(...)
QueryFilter ==
    /\ query.pc = "filtering"
    /\ query' = [query EXCEPT
                    !.pc = "done",
                    !.readAt = now,
                    !.result = FilterResolvable(query.rows, query.result, now)]
    /\ UNCHANGED now

\* the read of the table fails: the query rejects with the error
QueryFail ==
    /\ query.pc = "fetching"
    /\ query' = [query EXCEPT !.pc = "failed"]
    /\ UNCHANGED now

\* the caller has taken the result
QueryEnd ==
    /\ query.pc \in {"done", "failed"}
    /\ query' = IdleQuery
    /\ UNCHANGED now

\* a second passes
Tick ==
    /\ now < MaxTime
    /\ now' = now + 1
    /\ UNCHANGED query

QueryInit ==
    /\ now = 0
    /\ query = IdleQuery

QueryNext ==
    \/ \E kind \in QueryKinds : QueryStart(kind)
    \/ QueryRows
    \/ QueryFilter
    \/ QueryFail
    \/ QueryEnd
    \/ Tick

(***************************************************************************)
(* The increment operations.  Each is the whole method: the UPDATE or      *)
(* INSERT of the day's row, the confidence bucket, and (for a win or a     *)
(* loss) the trailing updateStreak call.                                   *)
(***************************************************************************)
\* the UPDATE-or-INSERT that opens incrementWin
WinRow(perf, amount, date) ==
    IF HasRow(perf, date)
    THEN [perf EXCEPT ![date].wins = @ + 1, ![date].total_won = @ + amount]
    ELSE PutRow(perf, date, [DefaultRow EXCEPT !.wins = 1, !.total_won = amount])

\* the UPDATE-or-INSERT that opens incrementLoss, its INSERT without the
\* amount
LossRow_InsertWithoutAmount(perf, amount, date) ==
    IF HasRow(perf, date)
    THEN [perf EXCEPT ![date].losses = @ + 1, ![date].total_lost = @ + amount]
    ELSE PutRow(perf, date, [DefaultRow EXCEPT !.losses = 1])

\* the UPDATE-or-INSERT that opens incrementLoss
LossRow(perf, amount, date) ==
    IF HasRow(perf, date)
    THEN [perf EXCEPT ![date].losses = @ + 1, ![date].total_lost = @ + amount]
    ELSE PutRow(perf, date, [DefaultRow EXCEPT !.losses = 1, !.total_lost = amount])

incrementWin(amount, date, confidence) ==
    /\ performance' = updateStreak(WinRow(performance, amount, date), TRUE, date)
    /\ confidence_performance' =
           IF confidence # NoConfidence
           THEN incrementConfidenceWin(confidence_performance, confidence, amount)
           ELSE confidence_performance

incrementLoss(amount, date, confidence) ==
    /\ performance' = updateStreak(LossRow(performance, amount, date), FALSE, date)
    /\ confidence_performance' =
           IF confidence # NoConfidence
           THEN incrementConfidenceLoss(confidence_performance, confidence, amount)
           ELSE confidence_performance

incrementTie(date, confidence) ==
    /\ performance' =
           IF HasRow(performance, date)
           THEN [performance EXCEPT ![date].ties = @ + 1]
           ELSE PutRow(performance, date, [DefaultRow EXCEPT !.ties = 1])
    /\ confidence_performance' =
           IF confidence # NoConfidence
           THEN incrementConfidenceTie(confidence_performance, confidence)
           ELSE confidence_performance

\* incrementResolverEarnings writing the amount over the column
incrementResolverEarnings_Overwrite(amount, date) ==
    /\ performance' =
           PutRow(performance, date,
                  [(IF HasRow(performance, date) THEN performance[date]
                    ELSE DefaultRow)
                   EXCEPT !.resolver_earnings = amount])
    /\ UNCHANGED confidence_performance

incrementResolverEarnings(amount, date) ==
    /\ performance' =
           IF HasRow(performance, date)
           THEN [performance EXCEPT ![date].resolver_earnings = @ + amount]
           ELSE PutRow(performance, date,
                       [DefaultRow EXCEPT !.resolver_earnings = amount])
    /\ UNCHANGED confidence_performance

(***************************************************************************)
(* The ledger's steps: the four record operations, called with today's     *)
(* date (the default of every `date` parameter), and the passing of        *)
(* midnight.                                                               *)
(***************************************************************************)
\* the calls made so far with one date: how many of each kind, and the sums
\* of the amounts passed
NoCalls == [wins |-> 0, losses |-> 0, ties |-> 0, won |-> 0, lost |-> 0]

Noted(op) ==
    /\ opCount < MaxOps
    /\ opCount' = opCount + 1
    /\ lastOp' = op
    /\ prevPerformance' = performance
    /\ UNCHANGED today
    /\ UNCHANGED notPerf

RecordWin ==
    \E amount \in Amounts, confidence \in Confidences :
        /\ incrementWin(amount, today, confidence)
        /\ outcomes' = Append(outcomes, "W")
        /\ recorded' = [recorded EXCEPT ![today].wins = @ + 1,
                                        ![today].won = @ + amount]
        /\ Noted("win")

RecordLoss ==
    \E amount \in Amounts, confidence \in Confidences :
        /\ incrementLoss(amount, today, confidence)
        /\ outcomes' = Append(outcomes, "L")
        /\ recorded' = [recorded EXCEPT ![today].losses = @ + 1,
                                        ![today].lost = @ + amount]
        /\ Noted("loss")

RecordTie ==
    \E confidence \in Confidences :
        /\ incrementTie(today, confidence)
        /\ UNCHANGED outcomes
        /\ recorded' = [recorded EXCEPT ![today].ties = @ + 1]
        /\ Noted("tie")

RecordResolverEarnings ==
    \E amount \in Amounts :
        /\ incrementResolverEarnings(amount, today)
        /\ UNCHANGED <<outcomes, recorded>>
        /\ Noted("earn")

NextDay ==
    /\ today < MaxDay
    /\ today' = today + 1
    /\ lastOp' = "day"
    /\ UNCHANGED <<performance, confidence_performance, outcomes,
                   prevPerformance, opCount, recorded>>
    /\ UNCHANGED notPerf

PerfInit ==
    /\ performance = [d \in {} |-> DefaultRow]
    /\ confidence_performance = [b \in Buckets |-> DefaultBucketRow]
    /\ today = 1
    /\ outcomes = <<>>
    /\ lastOp = "none"
    /\ prevPerformance = [d \in {} |-> DefaultRow]
    /\ opCount = 0
    /\ recorded = [d \in Dates |-> NoCalls]

PerfNext ==
    \/ RecordWin
    \/ RecordLoss
    \/ RecordTie
    \/ RecordResolverEarnings
    \/ NextDay

(***************************************************************************)
(* The price conversions of the utils module, which OracleService          *)
(* priceToU64 / u64ToPrice call.                                           *)
(*                                                                         *)
(* JavaScript numbers.  A number is an IEEE 754 double; the conversions    *)
(* below compute on doubles exactly as the engine does, so whole numbers   *)
(* of up to 80 bits are needed.  A whole number is a sequence of limbs in  *)
(* base 2^15, least significant first, whose last limb is not 0 (zero is   *)
(* the empty sequence); a double is [m, e], standing for m * 2^e with      *)
(* 2^52 <= m < 2^53, or Zero.  Only finite numbers >= 0 are modelled.      *)
(***************************************************************************)
Limb == 32768
LimbBits == 15
MantissaBits == 53

RECURSIVE Pow(_, _)
Pow(b, n) == IF n = 0 THEN 1 ELSE b * Pow(b, n - 1)

\* drop the leading zero limbs
RECURSIVE Trim(_)
Trim(x) ==
    IF x = <<>> THEN x
    ELSE IF x[Len(x)] = 0 THEN Trim(SubSeq(x, 1, Len(x) - 1))
    ELSE x

\* the whole number of a small integer n >= 0
RECURSIVE Whole(_)
Whole(n) == IF n = 0 THEN <<>> ELSE <<n % Limb>> \o Whole(n \div Limb)

\* x * k + c for small k, c
RECURSIVE MulAdd(_, _, _)
MulAdd(x, k, c) ==
    IF x = <<>> THEN Whole(c)
    ELSE LET t == x[1] * k + c
         IN  <<t % Limb>> \o MulAdd(Tail(x), k, t \div Limb)

MulSmall(x, k) == Trim(MulAdd(x, k, 0))

\* x \div k and x % k for small k, from the most significant limb down
RECURSIVE DivRem(_, _, _)
DivRem(x, k, r) ==
    IF x = <<>> THEN [q |-> <<>>, r |-> r]
    ELSE LET t == r * Limb + x[Len(x)]
             rest == DivRem(SubSeq(x, 1, Len(x) - 1), k, t % k)
         IN  [q |-> Append(rest.q, t \div k), r |-> rest.r]

DivSmall(x, k) ==
    LET d == DivRem(x, k, 0) IN [q |-> Trim(d.q), r |-> d.r]

RECURSIVE SmallBits(_)
SmallBits(n) == IF n = 0 THEN 0 ELSE 1 + SmallBits(n \div 2)

BitLen(x) ==
    IF x = <<>> THEN 0 ELSE (Len(x) - 1) * LimbBits + SmallBits(x[Len(x)])

\* x * 2^s
ShiftLeft(x, s) ==
    IF x = <<>> THEN x
    ELSE [i \in 1..(s \div LimbBits) |-> 0] \o MulSmall(x, Pow(2, s % LimbBits))

\* x \div 2^s, and whether a 1 bit was shifted out
ShiftRight(x, s) ==
    LET limbs == Min(s \div LimbBits, Len(x))
        low == SubSeq(x, 1, limbs)
        d == DivSmall(SubSeq(x, limbs + 1, Len(x)), Pow(2, s % LimbBits))
    IN  [q |-> d.q,
         lost |-> d.r # 0 \/ \E i \in 1..Len(low) : low[i] # 0]

Odd(x) == x # <<>> /\ x[1] % 2 = 1

Zero == [m |-> <<>>, e |-> 0]

\* the double nearest to x * 2^e (ties to even), `inexact` telling that x is
\* the floor of a value that is not whole
RoundToDouble(x, e, inexact) ==
    IF x = <<>> THEN Zero
    ELSE LET len == BitLen(x)
         IN  IF len <= MantissaBits
             THEN [m |-> ShiftLeft(x, MantissaBits - len),
                   e |-> e - (MantissaBits - len)]
             ELSE LET kept == ShiftRight(x, len - MantissaBits)
                      below == ShiftRight(x, len - MantissaBits - 1)
                      half == Odd(below.q)
                      sticky == below.lost \/ inexact
                      roundUp == half /\ (sticky \/ Odd(kept.q))
                      m == IF roundUp THEN Trim(MulAdd(kept.q, 1, 1)) ELSE kept.q
                  IN  IF BitLen(m) > MantissaBits
                      THEN [m |-> ShiftRight(m, 1).q, e |-> e + (len - MantissaBits) + 1]
                      ELSE [m |-> m, e |-> e + (len - MantissaBits)]

\* Oracle prices have 8 decimal places
ORACLE_DECIMALS == 8

\* the guard bits kept below a quotient so that its rounding is decided
GuardBits == 84

\* the whole number a string of decimal digits spells
RECURSIVE ParseDigits(_, _)
ParseDigits(digits, acc) ==
    IF digits = <<>> THEN Trim(acc)
    ELSE ParseDigits(Tail(digits), MulAdd(acc, 10, Head(digits)))

\* the decimal digits of a whole number below 2^53, which a number prints in
\* full
RECURSIVE Digits(_)
Digits(x) ==
    IF x = <<>> THEN <<>>
    ELSE LET d == DivSmall(x, 10) IN Append(Digits(d.q), d.r)

\* x \div 10^n for n <= 8, and whether anything was left over
DivPow10(x, n) ==
    LET a == DivSmall(x, Pow(10, Min(n, 4)))
        b == DivSmall(a.q, Pow(10, n - Min(n, 4)))
    IN  [q |-> b.q, inexact |-> a.r # 0 \/ b.r # 0]

\* the double nearest to x * 2^e / 10^n
Quotient(x, e, n) ==
    LET d == DivPow10(ShiftLeft(x, GuardBits), n)
    IN  RoundToDouble(d.q, e - GuardBits, d.inexact)

\* the number a decimal literal (digits, point, at most 8 digits) denotes
Number(int, frac) == Quotient(ParseDigits(int \o frac, <<>>), 0, Len(frac))

\* price * ORACLE_MULTIPLIER
TimesMultiplier(d) ==
    RoundToDouble(MulSmall(MulSmall(d.m, Pow(10, 4)), Pow(10, 4)), d.e, FALSE)

\* n / ORACLE_MULTIPLIER
OverMultiplier(d) == Quotient(d.m, d.e, ORACLE_DECIMALS)

\* floor(x * 2^e + 1/2) for a whole number x
NearestWhole(x, e) ==
    IF e >= 0 THEN ShiftLeft(x, e)
    ELSE LET k == ShiftRight(x, 0 - e).q
             half == Odd(ShiftRight(x, 0 - e - 1).q)
         IN  IF half THEN Trim(MulAdd(k, 1, 1)) ELSE k

\* Math.round of a double, as a whole number
MathRound(d) == NearestWhole(d.m, d.e)

\* Math.round(price * ORACLE_MULTIPLIER).toString()
priceToU64(price) ==
    LET digits == Digits(MathRound(TimesMultiplier(price)))
    IN  IF digits = <<>> THEN <<0>> ELSE digits

\* parseInt(u64, 10) / ORACLE_MULTIPLIER
u64ToPrice(u64) ==
    OverMultiplier(RoundToDouble(ParseDigits(u64, <<>>), 0, FALSE))

\* the prices converted: the decimal literals int.frac, each below 2^53 / 10^8
PriceInts ==
    {<<0>>, <<1>>, <<6, 7, 0, 0, 0>>, <<9, 5, 3, 0, 0>>,
     <<2, 2, 5, 1, 7, 9, 9, 9>>, <<3, 6, 4, 2, 1, 8, 0, 8>>}
PriceFracs ==
    {<<>>, <<5>>, <<7>>, <<0, 0, 0, 0, 0, 0, 0, 1>>, <<1, 2, 3, 4, 5, 6, 7, 8>>,
     <<2, 4, 6, 5, 0, 2, 9, 4>>, <<9, 9, 9, 9, 9, 9, 9, 9>>}

NoNumber == [m |-> <<>>, e |-> 1]

\* a price is taken
ConvInit ==
    \E int \in PriceInts, frac \in PriceFracs :
        conv = [pc |-> "price", int |-> int, frac |-> frac,
                price |-> Number(int, frac), u64 |-> <<>>, back |-> NoNumber]

\* nothing is converted
ConvIdle ==
    conv = [pc |-> "price", int |-> <<0>>, frac |-> <<>>,
            price |-> Zero, u64 |-> <<>>, back |-> NoNumber]

\* priceToU64(price) is called
ConvertToU64 ==
    /\ conv.pc = "price"
    /\ conv' = [conv EXCEPT !.pc = "u64", !.u64 = priceToU64(conv.price)]
    /\ UNCHANGED notConv

\* u64ToPrice(u64) is called with the string priceToU64 returned
ConvertToPrice ==
    /\ conv.pc = "u64"
    /\ conv' = [conv EXCEPT !.pc = "back", !.back = u64ToPrice(conv.u64)]
    /\ UNCHANGED notConv

ConvNext ==
    \/ ConvertToU64
    \/ ConvertToPrice

(***************************************************************************)
(* The price oracle.  getPrice reads one row of the oracle's table through *)
(* the RPC client and takes the price from its aggregate.                  *)
(***************************************************************************)
\* ORACLE
BTC_USD == 4
ETH_USD == 5
XPR_USD == 13
FeedIds == {BTC_USD, ETH_USD, XPR_USD}

\* the text of d_double: a decimal literal, or nothing (the field is missing
\* or the empty string, which the code tells apart from neither)
NoText == <<>>
AggregateTexts ==
    {NoText,
     <<"0", ".", "0">>,
     <<"9", "5", "3", "0", "0", ".", "5">>}

\* a row of the table: with no aggregate, or with an aggregate whose d_double
\* is one of the texts
NoAggregate == [aggregate |-> FALSE, d_double |-> NoText]
FeedRows ==
    {NoAggregate} \cup {[aggregate |-> TRUE, d_double |-> t] : t \in AggregateTexts}
FeedTables == UNION {[ids -> FeedRows] : ids \in SUBSET FeedIds}

DigitOf(c) ==
    CASE c = "0" -> 0 [] c = "1" -> 1 [] c = "2" -> 2 [] c = "3" -> 3
      [] c = "4" -> 4 [] c = "5" -> 5 [] c = "6" -> 6 [] c = "7" -> 7
      [] c = "8" -> 8 [] c = "9" -> 9

\* parseFloat of a decimal literal: the digits before and after the point
ParseFloat(text) ==
    LET points == {i \in 1..Len(text) : text[i] = "."}
        point == IF points = {} THEN Len(text) + 1
                 ELSE CHOOSE i \in points : \A j \in points : i <= j
        int == [i \in 1..(point - 1) |-> DigitOf(text[i])]
        frac == [i \in 1..(Len(text) - Min(point, Len(text))) |->
                    DigitOf(text[point + i])]
    IN  Number(int, frac)

\* get_table_rows with lower_bound = upper_bound = feedIndex, limit 1
FeedLookup(table, feedIndex) ==
    IF feedIndex \in DOMAIN table THEN <<table[feedIndex]>> ELSE <<>>

\* the aggregate test passing every row
HasAggregate_Always(row) == TRUE

\* the negation of (!row.aggregate || !row.aggregate.d_double)
HasAggregate(row) == row.aggregate /\ row.d_double # NoText

NoPrice == [price |-> NoNumber, timestamp |-> -1, feedIndex |-> -1]

IdlePriceCall ==
    [pc |-> "idle", feedIndex |-> -1, fetched |-> FALSE, rows |-> <<>>,
     result |-> NoPrice, error |-> "none"]

\* getPrice(feedIndex) is called and awaits the rows
GetPriceStart(feedIndex) ==
    /\ priceCall.pc = "idle"
    /\ priceCall' = [IdlePriceCall EXCEPT !.pc = "fetching", !.feedIndex = feedIndex]
    /\ UNCHANGED <<feeds, notOracle>>

\* the rows arrive: getPrice throws for no row and for a row without an
\* aggregate value, and returns the parsed price otherwise
GetPriceRows ==
    /\ priceCall.pc = "fetching"
    /\ LET rows == FeedLookup(feeds, priceCall.feedIndex)
           got == [priceCall EXCEPT !.fetched = TRUE, !.rows = rows]
       IN  priceCall' =
               IF Len(rows) = 0
               THEN [got EXCEPT !.pc = "thrown", !.error = "not found"]
               ELSE IF ~HasAggregate(rows[1])
               THEN [got EXCEPT !.pc = "thrown", !.error = "has no aggregate value"]
               ELSE [got EXCEPT !.pc = "returned",
                                !.result = [price |-> ParseFloat(rows[1].d_double),
                                            timestamp |-> now * 1000,
                                            feedIndex |-> priceCall.feedIndex]]
    /\ UNCHANGED <<feeds, notOracle>>

\* the read rejects once the client's retries are used up: getPrice rejects
\* with that error
GetPriceFail ==
    /\ priceCall.pc = "fetching"
    /\ priceCall' = [priceCall EXCEPT !.pc = "thrown", !.error = "rpc"]
    /\ UNCHANGED <<feeds, notOracle>>

\* the caller has taken the price or the error
GetPriceEnd ==
    /\ priceCall.pc \in {"returned", "thrown"}
    /\ priceCall' = IdlePriceCall
    /\ UNCHANGED <<feeds, notOracle>>

OracleInit ==
    /\ feeds \in FeedTables
    /\ priceCall = IdlePriceCall

OracleIdle ==
    /\ feeds = [f \in FeedIds |-> [aggregate |-> TRUE, d_double |-> <<"0", ".", "0">>]]
    /\ priceCall = IdlePriceCall

OracleNext ==
    \/ \E feedIndex \in FeedIds : GetPriceStart(feedIndex)
    \/ GetPriceRows
    \/ GetPriceFail
    \/ GetPriceEnd

(***************************************************************************)
(* The wager table of the ledger.  The contract is not part of the         *)
(* repository: its steps are those the README describes (create, accept,   *)
(* resolve, cancel, expire), taken by this account or by anyone else.      *)
(***************************************************************************)
\* the configured account and another one
Me == "bot"
Accounts == {Me, "other"}
\* the empty name the ledger serves for a wager without an opponent
NoAccount == ""

\* the stakes, in the smallest unit, as the ledger serves them
Stake100 == <<1, 0, 0, 0, 0, 0, 0>>
Stake1 == <<1, 0, 0, 0, 0>>

\* the ids the ledger gives out, in order
NextId == Cardinality(DOMAIN remote) + 1

\* a wager is created while the table has fewer than `limit`: Open, without
\* an opponent, not started
RemoteCreate(creator, amount, duration, expiry, limit) ==
    /\ NextId <= limit
    /\ remote' = [id \in DOMAIN remote \cup {NextId} |->
                     IF id \in DOMAIN remote THEN remote[id]
                     ELSE [creator |-> creator, opponent |-> NoAccount,
                           amount |-> amount, duration |-> duration,
                           started_at |-> 0, expires_at |-> now + expiry,
                           status |-> OPEN]]
    /\ UNCHANGED notLedger

\* an Open wager is accepted by another account: Active from now on
RemoteAccept(id, opponent) ==
    /\ id \in DOMAIN remote
    /\ remote[id].status = OPEN
    /\ opponent # remote[id].creator
    /\ remote' = [remote EXCEPT ![id].opponent = opponent,
                                ![id].status = ACTIVE,
                                ![id].started_at = now]
    /\ UNCHANGED notLedger

\* an Active wager whose duration has passed is resolved, or an Open one is
\* cancelled or expired
RemoteSettle(id) ==
    /\ id \in DOMAIN remote
    /\ \/ /\ remote[id].status = ACTIVE
          /\ now >= remote[id].started_at + remote[id].duration
          /\ \E st \in {RESOLVED, TIE} : remote' = [remote EXCEPT ![id].status = st]
       \/ /\ remote[id].status = OPEN
          /\ remote' = [remote EXCEPT ![id].status = CANCELLED]
       \/ /\ remote[id].status = OPEN
          /\ now >= remote[id].expires_at
          /\ remote' = [remote EXCEPT ![id].status = EXPIRED]
    /\ UNCHANGED notLedger

\* a second passes
ClockTick ==
    /\ Tick
    /\ UNCHANGED notClock

LedgerInit == remote = [id \in {} |-> 0]

(***************************************************************************)
(* The local mirror: ChallengeService.syncChallenges pulls a page of the   *)
(* ledger's table and DatabaseQueries.upsertChallenges upserts each row.   *)
(* The columns kept are those the claims read; direction, oracle_index,    *)
(* the prices, created_at and winner are copied like amount and status.    *)
(***************************************************************************)
\* getAllChallenges(limit: number = 200)
PageLimit == 200

\* SQL NULL in a TEXT and in an INTEGER column
NullText == "NULL"
NullInt == -1

\* value || null
OrNullText(v) == IF v = "" THEN NullText ELSE v
OrNullInt(v) == IF v = 0 THEN NullInt ELSE v

\* the ids of a table, highest first (reverse: true), at most `limit` of them
RECURSIVE Descending(_, _)
Descending(ids, limit) ==
    IF ids = {} \/ limit = 0 THEN <<>>
    ELSE LET top == CHOOSE i \in ids : \A j \in ids : j <= i
         IN  <<top>> \o Descending(ids \ {top}, limit - 1)

\* the rows getAllChallenges returns: each with its id
FetchPage(table) ==
    LET ids == Descending(DOMAIN table, PageLimit)
    IN  [i \in 1..Len(ids) |-> [id |-> ids[i], row |-> table[ids[i]]]]

\* upsertChallenges: the role of `account` in the row
RoleOf(c, account) ==
    IF account = "" THEN NullText
    ELSE IF c.creator = account THEN "creator"
    ELSE IF c.opponent = account THEN "opponent"
    ELSE NullText

\* upsertChallenge whose UPDATE also clears our_role
upsertChallenge_ClearsRole(table, id, c, ourRole, t) ==
    IF id \in DOMAIN table
    THEN [table EXCEPT ![id].opponent = OrNullText(c.opponent),
                       ![id].started_at = OrNullInt(c.started_at),
                       ![id].expires_at = OrNullInt(c.expires_at),
                       ![id].status = c.status,
                       ![id].our_role = NullText,
                       ![id].synced_at = t]
    ELSE [i \in DOMAIN table \cup {id} |->
             IF i # id THEN table[i]
             ELSE [creator |-> c.creator, opponent |-> OrNullText(c.opponent),
                   amount |-> c.amount, duration |-> c.duration,
                   started_at |-> OrNullInt(c.started_at),
                   expires_at |-> OrNullInt(c.expires_at),
                   status |-> c.status, our_role |-> ourRole, synced_at |-> t]]

\* upsertChallenge: UPDATE the row of the id when there is one (opponent,
\* started_at, expires_at, status, synced_at = CURRENT_TIMESTAMP), INSERT it
\* with every column and our_role otherwise
upsertChallenge(table, id, c, ourRole, t) ==
    IF id \in DOMAIN table
    THEN [table EXCEPT ![id].opponent = OrNullText(c.opponent),
                       ![id].started_at = OrNullInt(c.started_at),
                       ![id].expires_at = OrNullInt(c.expires_at),
                       ![id].status = c.status,
                       ![id].synced_at = t]
    ELSE [i \in DOMAIN table \cup {id} |->
             IF i # id THEN table[i]
             ELSE [creator |-> c.creator, opponent |-> OrNullText(c.opponent),
                   amount |-> c.amount, duration |-> c.duration,
                   started_at |-> OrNullInt(c.started_at),
                   expires_at |-> OrNullInt(c.expires_at),
                   status |-> c.status, our_role |-> ourRole, synced_at |-> t]]

\* upsertChallenges: for (const c of challenges) upsertChallenge(c, ourRole)
RECURSIVE upsertChallenges(_, _, _, _)
upsertChallenges(table, page, account, t) ==
    IF page = <<>> THEN table
    ELSE LET c == Head(page)
         IN  upsertChallenges(
                 upsertChallenge(table, c.id, c.row, RoleOf(c.row, account), t),
                 Tail(page), account, t)

\* the rows of the mirror with the ids of `ids`, highest id first
MirrorRows(table, ids) ==
    LET order == Descending(ids, Cardinality(ids))
    IN  [i \in 1..Len(order) |-> [id |-> order[i], row |-> table[order[i]]]]

\* DatabaseQueries.getOurChallenges / getActiveChallenges / getChallengeById
dbGetOurChallenges(table, account) ==
    MirrorRows(table, {id \in DOMAIN table :
                          table[id].creator = account \/ table[id].opponent = account})
dbGetActiveChallenges(table) ==
    MirrorRows(table, {id \in DOMAIN table : table[id].status = ACTIVE})
dbGetChallengeById(table, id) ==
    MirrorRows(table, {id} \cap DOMAIN table)

NoPage == <<>>

IdleSync ==
    [pc |-> "idle",
     \* history of the syncs, kept for stating the claims
     count |-> 0,               \* syncs completed
     page |-> NoPage,           \* the rows the last sync upserted
     prevPage |-> NoPage,       \* the rows the sync before it upserted
     at |-> -1,                 \* the time of the last sync
     before |-> [id \in {} |-> 0]]  \* the mirror just before the last sync

\* syncChallenges is called and awaits getAllChallenges
SyncStart ==
    /\ sync.pc = "idle"
    /\ sync.count < MaxSyncs
    /\ sync' = [sync EXCEPT !.pc = "fetching"]
    /\ UNCHANGED <<challenges, notSync>>

\* the rows arrive and upsertChallenges upserts each of them
SyncRows ==
    /\ sync.pc = "fetching"
    /\ LET page == FetchPage(remote)
       IN  /\ challenges' = upsertChallenges(challenges, page, Me, now)
           /\ sync' = [sync EXCEPT !.pc = "idle",
                                   !.count = @ + 1,
                                   !.page = page,
                                   !.prevPage = sync.page,
                                   !.at = now,
                                   !.before = challenges]
    /\ UNCHANGED notSync

\* the read rejects: syncChallenges rejects and the mirror is left as it is
SyncFail_ClearsMirror ==
    /\ sync.pc = "fetching"
    /\ sync' = [sync EXCEPT !.pc = "idle"]
    /\ challenges' = [id \in {} |-> 0]
    /\ UNCHANGED notSync

SyncFail ==
    /\ sync.pc = "fetching"
    /\ sync' = [sync EXCEPT !.pc = "idle"]
    /\ UNCHANGED <<challenges, notSync>>

SyncInit ==
    /\ challenges = [id \in {} |-> 0]
    /\ sync = IdleSync

SyncNext ==
    \/ \E creator \in Accounts : RemoteCreate(creator, Stake100, 1, 1, MaxMirrored)
    \/ \E id \in WagerIds, opponent \in Accounts : RemoteAccept(id, opponent)
    \/ \E id \in WagerIds : RemoteSettle(id)
    \/ ClockTick
    \/ SyncStart
    \/ SyncRows
    \/ SyncFail

(***************************************************************************)
(* The resolver service (src/services/resolver.ts).  A strategy tick calls *)
(* resolveAll and then expireAll; bot.ts starts the ticks with setInterval *)
(* and no guard, so a tick may start while the previous one is suspended.  *)
(* A batch is one call of resolveAll, of expireAll, or of resolveBattle by *)
(* itself; it is suspended at the enumeration read, at the oracle read, at *)
(* the submission and at the pause between two items.                      *)
(*                                                                         *)
(* Amounts in XPR are whole numbers here: the stakes are multiples of 25   *)
(* XPR, for which 2% of the pot is a whole number of XPR and every         *)
(* intermediate value of the code's arithmetic is a whole number too.      *)
(***************************************************************************)
\* the invocations that may be in progress at once, and the first of them
Ticks == {"t1", "t2"}
First == {"t1"}

\* a stake of 25.0000 XPR in the smallest unit
Stake25 == <<2, 5, 0, 0, 0, 0>>
\* the stake the wager `id` is created with
StakeOf(id) == IF id % 2 = 1 THEN Stake100 ELSE Stake25

\* parseInt(text, 10) of a digit string
RECURSIVE ParseInt(_)
ParseInt(digits) ==
    IF digits = <<>> THEN 0
    ELSE ParseInt(SubSeq(digits, 1, Len(digits) - 1)) * 10 + digits[Len(digits)]

\* const pot = parseInt(challenge.amount, 10) * 2
Pot(c) == ParseInt(c.amount) * 2

\* the reward taken on one stake instead of the pot
ResolverReward_OneStake(c) == (((Pot(c) \div 2) * 2) \div 100) \div 10000

\* resolverReward = pot * 0.02, then resolverReward / 10000: from the
\* smallest unit to XPR
ResolverReward(c) == ((Pot(c) * 2) \div 100) \div 10000

NoReward == -1

IdleBatch ==
    [pc |-> "idle", kind |-> "none", list |-> <<>>, results |-> <<>>,
     reads |-> 0, writes |-> 0, found |-> -1, at |-> -1,
     pauses |-> 0]

\* the item a batch is working on
Item(b) == b.list[Len(b.results) + 1]

\* results.push(result), then the pause unless the item was the last one;
\* the result keeps, for the claims, the Challenge object the item was,
\* the clock and the ledger's status of the wager when the item was begun,
\* and the oracle reads and submissions made for it; the batch counts the
\* pauses it has begun
Push_AlwaysPauses(b, success, error, txId, reward) ==
    LET result == [challengeId |-> Item(b).id, success |-> success,
                   error |-> error, txId |-> txId, resolverReward |-> reward,
                   c |-> Item(b).row, at |-> b.at, found |-> b.found,
                   reads |-> b.reads, writes |-> b.writes]
    IN  [b EXCEPT !.results = Append(b.results, result),
                  !.pc = "pausing", !.pauses = @ + 1,
                  !.reads = 0, !.writes = 0, !.found = -1, !.at = -1]

Push(b, success, error, txId, reward) ==
    LET result == [challengeId |-> Item(b).id, success |-> success,
                   error |-> error, txId |-> txId, resolverReward |-> reward,
                   c |-> Item(b).row, at |-> b.at, found |-> b.found,
                   reads |-> b.reads, writes |-> b.writes]
        results == Append(b.results, result)
        more == Len(results) < Len(b.list)
    IN  [b EXCEPT !.results = results,
                  !.pc = IF more THEN "pausing" ELSE "returned",
                  !.pauses = IF more THEN @ + 1 ELSE @,
                  !.reads = 0, !.writes = 0, !.found = -1, !.at = -1]

\* a catch block that lets the error out of the batch
Caught_Rethrow(b, error) == [b EXCEPT !.pc = "failed"]

\* the catch blocks of resolveBattle and of expireAll's loop: the error
\* becomes the item's failure result
Caught(b, error) == Push(b, FALSE, error, "none", NoReward)

\* the status the ledger has for a wager at the moment
StatusOnLedger(id) == IF id \in DOMAIN remote THEN remote[id].status ELSE -1

\* resolveBattle without its status check
resolveBattle_NoStatusCheck(b, t) ==
    LET item == b.list[Len(b.results) + 1]
        begun == [b EXCEPT !.at = t, !.found = StatusOnLedger(item.id)]
    IN  IF ~ReadyToResolve(item.row, t)
        THEN Push(begun, FALSE, "not_ended", "none", NoReward)
        ELSE [begun EXCEPT !.pc = "pricing", !.reads = 1]

\* resolveBattle up to its first await: the two checks on the Challenge
\* object it was given, then the oracle read goes out
resolveBattle(b, t) ==
    LET item == b.list[Len(b.results) + 1]
        begun == [b EXCEPT !.at = t, !.found = StatusOnLedger(item.id)]
    IN  IF ~ReadyToResolve(item.row, t)
        THEN Push(begun, FALSE, "not_ended", "none", NoReward)
        ELSE IF item.row.status # ACTIVE
        THEN Push(begun, FALSE, "invalid_status", "none", NoReward)
        ELSE [begun EXCEPT !.pc = "pricing", !.reads = 1]

\* the body of expireAll's loop up to its await: expireChallenge goes to
\* the signer, which in dry-run mode returns the mock result at once
expireChallenge(b, t, dry) ==
    LET item == b.list[Len(b.results) + 1]
        begun == [b EXCEPT !.at = t, !.found = StatusOnLedger(item.id)]
    IN  IF dry
        THEN Push(begun, TRUE, "none", "dry-run", NoReward)
        ELSE [begun EXCEPT !.pc = "submitting", !.writes = 1]

\* the next item of the batch is begun, or the batch returns
BeginItem(b, t, dry) ==
    IF Len(b.results) >= Len(b.list) THEN [b EXCEPT !.pc = "returned"]
    ELSE IF b.kind = "expireAll" THEN expireChallenge(b, t, dry)
    ELSE resolveBattle(b, t)

\* getExpiredChallenges: open.filter((c) => c.expires_at && now >= c.expires_at)
IsExpired(c, t) == c.status = OPEN /\ c.expires_at # 0 /\ t >= c.expires_at

\* getResolvableChallenges
IsResolvable(c, t) == c.status = ACTIVE /\ ReadyToResolve(c, t)

\* the resolver's steps change no other part, and of the performance
\* ledger only the table
resolverFrame ==
    UNCHANGED <<today, outcomes, lastOp, prevPerformance, opCount, recorded, rpcVars,
                queryVars, convVars, oracleVars, syncVars, tickVars, bot>>

noEarning == UNCHANGED <<performance, confidence_performance, earned, journal>>

\* a second invocation starts only while the first is in progress
MayStart(t) ==
    /\ batches[t].pc = "idle"
    /\ started < MaxBatches
    /\ t = "t2" => batches["t1"].pc # "idle"

\* resolveAll or expireAll is called: the enumeration read goes out, and
\* the ledger serves the page it has
BatchStart(t, kind) ==
    /\ MayStart(t)
    /\ batches' = [batches EXCEPT ![t] = [IdleBatch EXCEPT !.pc = "enumerating",
                                                          !.kind = kind,
                                                          !.list = FetchPage(remote)]]
    /\ started' = started + 1
    /\ UNCHANGED remote
    /\ noEarning
    /\ resolverFrame

\* resolveBattle is called by itself on the Challenge object of a wager
ResolveBattleStart(t, id) ==
    /\ MayStart(t)
    /\ id \in DOMAIN remote
    /\ batches' = [batches EXCEPT ![t] =
           resolveBattle([IdleBatch EXCEPT !.kind = "resolveBattle",
                              !.list = <<[id |-> id, row |-> remote[id]]>>],
                         now)]
    /\ started' = started + 1
    /\ UNCHANGED remote
    /\ noEarning
    /\ resolverFrame

\* the enumeration read returns: the rows are filtered and the loop begins
Enumerated(t) ==
    /\ batches[t].pc = "enumerating"
    /\ LET page == batches[t].list
           keep(e) == IF batches[t].kind = "expireAll" THEN IsExpired(e.row, now)
                      ELSE IsResolvable(e.row, now)
           listed == [batches[t] EXCEPT !.list = SelectSeq(page, keep)]
       IN  batches' = [batches EXCEPT ![t] = BeginItem(listed, now, dryRun)]
    /\ UNCHANGED <<remote, started>>
    /\ noEarning
    /\ resolverFrame

\* the enumeration read fails: the batch rejects
EnumerateFail(t) ==
    /\ batches[t].pc = "enumerating"
    /\ batches' = [batches EXCEPT ![t].pc = "failed", ![t].list = <<>>]
    /\ UNCHANGED <<remote, started>>
    /\ noEarning
    /\ resolverFrame

\* the lines after a resolve transaction was returned: the reward is added
\* to the earnings, the 'resolve' row is written and the reward is
\* returned in the result
Rewarded(t, txId) ==
    LET reward == ResolverReward(Item(batches[t]).row)
    IN  /\ incrementResolverEarnings(reward, today)
        /\ earned' = IF batches[t].kind = "resolveAll"
                     THEN [earned EXCEPT ![Item(batches[t]).id] = @ + 1]
                     ELSE earned
        /\ journal' = logDecision(EarningsIssued(journal, reward),
                                  Item(batches[t]).id, "resolve")
        /\ batches' = [batches EXCEPT ![t] =
               Push(batches[t], TRUE, "none", txId, reward)]

\* the oracle read returns its rows: getPrice throws on a missing row or
\* aggregate; otherwise the resolve transaction goes to the signer, which
\* in dry-run mode returns the mock result at once
PriceRows(t) ==
    /\ batches[t].pc = "pricing"
    /\ LET rows == FeedLookup(feeds, BTC_USD)
       IN  IF rows = <<>> \/ ~HasAggregate(rows[1])
           THEN /\ batches' = [batches EXCEPT ![t] = Caught(batches[t], "oracle")]
                /\ noEarning
           ELSE IF dryRun
           THEN Rewarded(t, "dry-run")
           ELSE /\ batches' = [batches EXCEPT ![t].pc = "submitting",
                                              ![t].writes = 1]
                /\ noEarning
    /\ UNCHANGED <<remote, started>>
    /\ resolverFrame

\* the oracle read fails
PriceFail(t) ==
    /\ batches[t].pc = "pricing"
    /\ batches' = [batches EXCEPT ![t] = Caught(batches[t], "oracle")]
    /\ UNCHANGED <<remote, started>>
    /\ noEarning
    /\ resolverFrame

\* the contract accepts the transaction: a resolve of a wager that is Active
\* and over, an expire of a wager that is Open and past its expiry
SubmitOk(t) ==
    /\ batches[t].pc = "submitting"
    /\ LET id == Item(batches[t]).id
       IN  IF batches[t].kind = "expireAll"
           THEN /\ IsExpired(remote[id], now)
                /\ remote' = [remote EXCEPT ![id].status = EXPIRED]
                /\ batches' = [batches EXCEPT ![t] =
                       Push(batches[t], TRUE, "none", "tx", NoReward)]
                /\ noEarning
           ELSE /\ IsResolvable(remote[id], now)
                /\ remote' = [remote EXCEPT ![id].status = RESOLVED]
                /\ Rewarded(t, "tx")
    /\ UNCHANGED started
    /\ resolverFrame

\* the submission fails, or the contract rejects the transaction
SubmitFail(t) ==
    /\ batches[t].pc = "submitting"
    /\ batches' = [batches EXCEPT ![t] = Caught(batches[t], "transact")]
    /\ UNCHANGED <<remote, started>>
    /\ noEarning
    /\ resolverFrame

\* the pause between two items ends
PauseEnd(t) ==
    /\ batches[t].pc = "pausing"
    /\ batches' = [batches EXCEPT ![t] = BeginItem(batches[t], now, dryRun)]
    /\ UNCHANGED <<remote, started>>
    /\ noEarning
    /\ resolverFrame

\* the caller has taken the results or the error
BatchEnd(t) ==
    /\ batches[t].pc \in {"returned", "failed"}
    /\ batches' = [batches EXCEPT ![t] = IdleBatch]
    /\ UNCHANGED <<remote, started>>
    /\ noEarning
    /\ resolverFrame

ResolverIdle ==
    /\ batches = [t \in Ticks |-> IdleBatch]
    /\ earned = [id \in 1..MaxListed |-> 0]
    /\ started = 0

\* the ledger the resolver starts on: some wagers of another account, Open
\* since the clock was 0 and expiring a second later
ResolverLedgers ==
    {[id \in 1..n |-> [creator |-> "other", opponent |-> NoAccount,
                       amount |-> StakeOf(id), duration |-> 1,
                       started_at |-> 0, expires_at |-> 1, status |-> OPEN]] :
         n \in 0..MaxListed}

\* the feeds while the resolver runs
ResolverFeeds ==
    [f \in FeedIds |-> [aggregate |-> TRUE,
                        d_double |-> <<"9", "5", "3", "0", "0", ".", "5">>]]

\* a second passes while the resolver runs
Elapse ==
    /\ now < MaxElapsed
    /\ ClockTick

\* someone else resolves an Active wager whose duration has passed
RemoteResolve(id) ==
    /\ id \in DOMAIN remote
    /\ IsResolvable(remote[id], now)
    /\ remote' = [remote EXCEPT ![id].status = RESOLVED]
    /\ UNCHANGED notLedger

ResolverNext ==
    \/ \E t \in First : BatchStart(t, "resolveAll")
    \/ \E t \in First : BatchStart(t, "expireAll")
    \/ \E t \in First, id \in WagerIds : ResolveBattleStart(t, id)
    \/ \E t \in First : Enumerated(t)
    \/ \E t \in First : EnumerateFail(t)
    \/ \E t \in First : PriceRows(t)
    \/ \E t \in First : PriceFail(t)
    \/ \E t \in First : SubmitOk(t)
    \/ \E t \in First : SubmitFail(t)
    \/ \E t \in First : PauseEnd(t)
    \/ \E t \in First : BatchEnd(t)
    \/ \E id \in WagerIds : RemoteAccept(id, Me)
    \/ \E id \in WagerIds : RemoteResolve(id)
    \/ Elapse

(***************************************************************************)
(* The trading policies (src/strategies): one tick of the resolve-only     *)
(* policy (resolver.ts), of the Conservative policy (passive.ts) and of    *)
(* the Active policy (aggressive.ts).  A tick is a chain of awaited calls; *)
(* each action below runs from one await to the next.  Amounts are whole   *)
(* XPR, the clock Date.now() is nowSeconds() * 1000.                       *)
(***************************************************************************)
\* bounds of this part
MaxRuns == 2
MaxOffered == 2

Policies == {"resolver", "passive", "aggressive"}

\* DIRECTION of a wager on the ledger
UP == 1
DOWN == 2

MIN_CREATE_CONFIDENCE(p) == IF p = "passive" THEN 75 ELSE 50
MIN_ACCEPT_CONFIDENCE(p) == IF p = "passive" THEN 75 ELSE 50
CREATE_COOLDOWN_MS(p) == IF p = "passive" THEN 120000 ELSE 600000
MAX_STAKE_PERCENT == 3
MAX_CREATE_STAKE == 100
MIN_DURATION == 1800
MAX_DURATION == 3600
MAX_ACCEPT_STAKE == 250
MIN_STAKE == 100

\* Date.now()
DateNow == now * 1000

\* what the prediction service answers, after validatePrediction: the
\* direction and the confidence are checked, the duration and the stake
\* percentage are taken as they come
Analysis(d, c, dur, s) ==
    [direction |-> d, confidence |-> c, recommendedDuration |-> dur,
     suggestedStake |-> s]

Analyses ==
    {Analysis("NEUTRAL", 90, 3600, 3), Analysis("UP", 49, 3600, 3),
     Analysis("UP", 60, 7200, 60), Analysis("DOWN", 75, 60, 2)}

\* shouldCreate returned null
NoDecision == [direction |-> "none", duration |-> 0, stakePercent |-> 0]

\* shouldCreate after the prediction has come back (the analyze_create row
\* is written by the caller, before this check)
shouldCreate_IgnoreConfidence(p, a, risk) ==
    IF p = "resolver" \/ a.direction = "NEUTRAL"
    THEN NoDecision
    ELSE [direction |-> a.direction, duration |-> a.recommendedDuration,
          stakePercent |-> Min(a.suggestedStake, risk.maxPercentPerChallenge)]

shouldCreate(p, a, risk) ==
    IF p = "resolver"
    THEN NoDecision
    ELSE IF a.direction = "NEUTRAL" \/ a.confidence < MIN_CREATE_CONFIDENCE(p)
    THEN NoDecision
    ELSE IF p = "passive"
    THEN [direction |-> a.direction,
          duration |-> a.recommendedDuration,
          stakePercent |-> Min(Min(a.suggestedStake, MAX_STAKE_PERCENT),
                               risk.maxPercentPerChallenge)]
    ELSE [direction |-> a.direction,
          duration |-> Max(MIN_DURATION, Min(a.recommendedDuration, MAX_DURATION)),
          stakePercent |-> Min(a.suggestedStake, risk.maxPercentPerChallenge)]

\* executeCreate: balance less the reserve, floored at 0
AvailableBalance(bal, risk) == Max(0, bal - risk.minBalanceReserve)

\* executeCreate: the stake in XPR
StakeAmount(p, d, available, risk) ==
    LET pct == IF p = "passive"
               THEN Min(Min(d.stakePercent, MAX_STAKE_PERCENT),
                        risk.maxPercentPerChallenge)
               ELSE Min(d.stakePercent, risk.maxPercentPerChallenge)
        floored == (available * pct) \div 100
        capped == IF p = "passive" THEN Min(floored, MAX_CREATE_STAKE) ELSE floored
        rounded == (capped \div 100) * 100
    IN  Max(rounded, MIN_STAKE)

\* today's totalLost - totalWon, as the daily-loss guard computes it
DailyLoss == LET perf == getPerformance(performance, today)
             IN  perf.totalLost - perf.totalWon

\* getOurActiveChallengesCount and the count of our own open wagers
OurActiveCount(table) ==
    Cardinality({id \in DOMAIN table :
                    /\ table[id].creator = Me \/ table[id].opponent = Me
                    /\ table[id].status = ACTIVE})

OurOpenCount(table) ==
    Cardinality({id \in DOMAIN table :
                    table[id].status = OPEN /\ table[id].creator = Me})

OwnCount(table) == OurActiveCount(table) + OurOpenCount(table)

\* getAcceptableChallenges: the open wagers of others, of one page
IsAcceptable(e) == e.row.status = OPEN /\ e.row.creator # Me
Acceptable(table) == SelectSeq(FetchPage(table), IsAcceptable)

\* the creation gate of tick()
CreateGate(p, r, risk, last) ==
    /\ r.activeCount + r.ourOpenCount < risk.maxConcurrentChallenges
    /\ r.nowMs - last >= CREATE_COOLDOWN_MS(p)
    /\ p = "aggressive" => r.ourOpenCount = 0

\* shouldAccept before its prediction call: Conservative skips a wager the
\* price has already moved in favour of, Active one whose duration or
\* stake is outside its limits
Refused(p, c, favoured) ==
    IF p = "passive"
    THEN favoured
    ELSE \/ c.duration < MIN_DURATION
         \/ c.duration > MAX_DURATION
         \/ ParseInt(c.amount) \div 10000 > MAX_ACCEPT_STAKE

\* shouldAccept after its prediction: the side left to us and the action of
\* the Decision row
OurDirection(c) == IF c.direction = UP THEN "DOWN" ELSE "UP"

AcceptAction(p, c, a) ==
    IF a.direction = OurDirection(c) /\ a.confidence >= MIN_ACCEPT_CONFIDENCE(p)
    THEN "accept"
    ELSE "skip"

\* shouldAccept as a whole; the resolve-only policy returns false
shouldAccept(p, c, a, favoured) ==
    /\ p # "resolver"
    /\ ~Refused(p, c, favoured)
    /\ AcceptAction(p, c, a) = "accept"

\* one entry of the record kept of a tick: a submission, a remote read, a
\* prediction call or a Decision row
Event(kind, id, info) == [kind |-> kind, id |-> id, info |-> info]
NoInfo == <<>>
Answered == [answered |-> TRUE]
Failed == [answered |-> FALSE]

IdleRun ==
    [pc |-> "idle", log |-> <<>>, threw |-> "none", lossy |-> FALSE,
     list |-> <<>>, activeCount |-> 0, ourOpenCount |-> 0, nowMs |-> 0,
     decision |-> NoDecision, available |-> 0, stake |-> 0]

Logged(r, events) == [r EXCEPT !.log = @ \o events]

tickFrame ==
    UNCHANGED <<confidence_performance, today, outcomes, lastOp,
                prevPerformance, opCount, recorded, rpcVars, queryVars, convVars,
                oracleVars, syncVars, resolverVars, bot>>

\* a step that writes no row
quietLedgers == UNCHANGED <<performance, remote, strategy, config, balance, history>>
quiet == quietLedgers /\ UNCHANGED journal

\* the order of the awaited parts of tick(): resolveExpired, expireExpired
\* and, except in the resolve-only policy, the trading part
Then_TradeFirst(p, part) ==
    CASE part = "start" -> IF p = "resolver" THEN "resolveAll" ELSE "isPaused"
      [] part = "trade" -> "resolveAll"
      [] part = "resolveAll" -> "expireAll"
      [] part = "expireAll" -> "done"

Then_AlwaysTrade(p, part) ==
    CASE part = "start" -> "resolveAll"
      [] part = "resolveAll" -> "expireAll"
      [] part = "expireAll" -> "isPaused"
      [] part = "trade" -> "done"

Then(p, part) ==
    CASE part = "start" -> "resolveAll"
      [] part = "resolveAll" -> "expireAll"
      [] part = "expireAll" -> IF p = "resolver" THEN "done" ELSE "isPaused"
      [] part = "trade" -> "done"

\* setInterval calls runStrategyTick whether or not the previous tick has
\* returned
TickStart(t) ==
    /\ runs[t].pc = "idle"
    /\ history.started < MaxRuns
    /\ runs' = [runs EXCEPT ![t] =
                   [IdleRun EXCEPT !.pc = Then(strategy.policy, "start"),
                                   !.lossy = DailyLoss >= strategy.risk.maxDailyLoss]]
    /\ history' = [history EXCEPT !.started = @ + 1]
    /\ UNCHANGED <<performance, remote, strategy, config, balance, journal>>
    /\ tickFrame

BatchOf(r) == IF r.pc \in {"resolveAll", "resolving"} THEN "resolveAll" ELSE "expireAll"

Eligible(r, e) ==
    IF BatchOf(r) = "resolveAll" THEN IsResolvable(e.row, now)
    ELSE IsExpired(e.row, now)

\* the pc after the enumeration, or after an item, of a batch
BatchGoes(r, rest) ==
    IF rest # <<>> THEN (IF BatchOf(r) = "resolveAll" THEN "resolving" ELSE "expiring")
    ELSE Then(strategy.policy, BatchOf(r))

\* resolveAll / expireAll: the enumeration read has answered
BatchListed(t) ==
    /\ runs[t].pc \in {"resolveAll", "expireAll"}
    /\ LET keep(e) == Eligible(runs[t], e)
           found == SelectSeq(FetchPage(remote), keep)
       IN  runs' = [runs EXCEPT ![t].list = found,
                                ![t].pc = BatchGoes(runs[t], found)]
    /\ quiet
    /\ tickFrame

\* the enumeration read has failed: nothing catches it in resolveAll or in
\* expireAll, nor in tick(); runStrategyTick logs it
BatchThrows(t) ==
    /\ runs[t].pc \in {"resolveAll", "expireAll"}
    /\ runs' = [runs EXCEPT ![t].pc = "thrown", ![t].threw = BatchOf(runs[t])]
    /\ quiet
    /\ tickFrame

\* one item of the batch: its transaction goes through
BatchItem(t) ==
    /\ runs[t].pc \in {"resolving", "expiring"}
    /\ LET e == Head(runs[t].list)
           rest == Tail(runs[t].list)
       IN  /\ Eligible(runs[t], [id |-> e.id, row |-> remote[e.id]])
           /\ remote' = [remote EXCEPT ![e.id].status =
                             IF BatchOf(runs[t]) = "resolveAll" THEN RESOLVED
                             ELSE EXPIRED]
           /\ IF BatchOf(runs[t]) = "resolveAll"
              THEN /\ incrementResolverEarnings(ResolverReward(e.row), today)
                   /\ journal' = logDecision(EarningsIssued(journal,
                                                            ResolverReward(e.row)),
                                             e.id, "resolve")
              ELSE UNCHANGED <<performance, confidence_performance, journal>>
           /\ runs' = [runs EXCEPT ![t] =
                          [Logged(runs[t],
                                  <<Event(IF BatchOf(runs[t]) = "resolveAll"
                                          THEN "resolve" ELSE "expire",
                                          e.id, NoInfo)>>)
                           EXCEPT !.list = rest,
                                  !.pc = BatchGoes(runs[t], rest)]]
    /\ UNCHANGED <<strategy, config, balance, history>>
    /\ UNCHANGED <<today, outcomes, lastOp, prevPerformance, opCount, recorded, rpcVars,
                   queryVars, convVars, oracleVars, syncVars, resolverVars, bot>>

\* one item of the batch fails: the failure becomes a result
BatchItemFails(t) ==
    /\ runs[t].pc \in {"resolving", "expiring"}
    /\ LET rest == Tail(runs[t].list)
       IN  runs' = [runs EXCEPT ![t].list = rest,
                                ![t].pc = BatchGoes(runs[t], rest)]
    /\ quiet
    /\ tickFrame

\* isPaused() has answered; the Active policy then reads today's
\* performance for its daily-loss guard
PausedRead_Ignored(t) ==
    /\ runs[t].pc = "isPaused"
    /\ runs' = [runs EXCEPT ![t] =
                   [Logged(runs[t], <<Event("paused_read", 0, [paused |-> config.paused])>>)
                    EXCEPT !.pc = "buildContext"]]
    /\ quiet
    /\ tickFrame

PausedRead(t) ==
    /\ runs[t].pc = "isPaused"
    /\ runs' = [runs EXCEPT ![t] =
                   [Logged(runs[t], <<Event("paused_read", 0, [paused |-> config.paused])>>)
                    EXCEPT !.pc =
                        IF config.paused THEN Then(strategy.policy, "trade")
                        ELSE IF /\ strategy.policy = "aggressive"
                                /\ DailyLoss >= strategy.risk.maxDailyLoss
                        THEN Then(strategy.policy, "trade")
                        ELSE "buildContext"]]
    /\ quiet
    /\ tickFrame

\* buildContext: the price and the market data are in
ContextBuilt(t) ==
    /\ runs[t].pc = "buildContext"
    /\ runs' = [runs EXCEPT ![t].pc = "countActive"]
    /\ quiet
    /\ tickFrame

\* buildContext: the price read has failed
ContextThrows(t) ==
    /\ runs[t].pc = "buildContext"
    /\ runs' = [runs EXCEPT ![t].pc = "thrown", ![t].threw = "buildContext"]
    /\ quiet
    /\ tickFrame

\* getOurActiveChallengesCount() has answered
CountActive(t) ==
    /\ runs[t].pc = "countActive"
    /\ runs' = [runs EXCEPT ![t].activeCount = OurActiveCount(remote),
                            ![t].pc = "countOpen"]
    /\ quiet
    /\ tickFrame

\* getOpenChallenges() has answered: the creation gate
CountOpen(t) ==
    /\ runs[t].pc = "countOpen"
    /\ LET r == [runs[t] EXCEPT !.ourOpenCount = OurOpenCount(remote),
                                !.nowMs = DateNow]
       IN  runs' = [runs EXCEPT ![t] =
                       [r EXCEPT !.pc =
                           IF CreateGate(strategy.policy, r, strategy.risk,
                                         strategy.lastCreateTime)
                           THEN "analyzeCreate"
                           ELSE "listing"]]
    /\ quiet
    /\ tickFrame

\* shouldCreate: the prediction has come back
Predicted(t, a) ==
    /\ runs[t].pc = "analyzeCreate"
    /\ LET d == shouldCreate(strategy.policy, a, strategy.risk)
       IN  runs' = [runs EXCEPT ![t] =
                       [Logged(runs[t],
                               <<Event("predict", 0, Answered),
                                 Event("row", 0, [action |-> "analyze_create",
                                                  analysis |-> a])>>)
                        EXCEPT !.decision = d,
                               !.pc = IF d = NoDecision THEN "listing"
                                      ELSE "getBalance"]]
    /\ journal' = logDecision(journal, 0, "analyze_create")
    /\ quietLedgers
    /\ tickFrame

\* shouldCreate: the prediction call has failed; shouldCreate returns null
PredictFails(t) ==
    /\ runs[t].pc = "analyzeCreate"
    /\ runs' = [runs EXCEPT ![t] =
                   [Logged(runs[t], <<Event("predict", 0, Failed)>>)
                    EXCEPT !.pc = "listing"]]
    /\ quiet
    /\ tickFrame

\* executeCreate: getBalance() has answered.  With too little available
\* executeCreate returns, and tick() sets lastCreateTime all the same.
BalanceRead_NoMinimum(t) ==
    /\ runs[t].pc = "getBalance"
    /\ LET available == AvailableBalance(balance, strategy.risk)
       IN  /\ runs' = [runs EXCEPT
                          ![t].available = available,
                          ![t].stake = StakeAmount(strategy.policy,
                                                   runs[t].decision, available,
                                                   strategy.risk),
                          ![t].pc = "createChallenge"]
           /\ UNCHANGED strategy
    /\ UNCHANGED <<performance, remote, config, balance, history, journal>>
    /\ tickFrame

BalanceRead(t) ==
    /\ runs[t].pc = "getBalance"
    /\ LET available == AvailableBalance(balance, strategy.risk)
       IN  IF available < MIN_STAKE
           THEN /\ runs' = [runs EXCEPT ![t].available = available,
                                        ![t].pc = "listing"]
                /\ strategy' = [strategy EXCEPT !.lastCreateTime = runs[t].nowMs]
           ELSE /\ runs' = [runs EXCEPT
                               ![t].available = available,
                               ![t].stake = StakeAmount(strategy.policy,
                                                        runs[t].decision, available,
                                                        strategy.risk),
                               ![t].pc = "createChallenge"]
                /\ UNCHANGED strategy
    /\ UNCHANGED <<performance, remote, config, balance, history, journal>>
    /\ tickFrame

\* executeCreate: getBalance() has failed; executeCreate catches it and
\* tick() sets lastCreateTime all the same
BalanceFails(t) ==
    /\ runs[t].pc = "getBalance"
    /\ runs' = [runs EXCEPT ![t] =
                   [Logged(runs[t], <<Event("getBalance", 0, Failed)>>)
                    EXCEPT !.pc = "listing"]]
    /\ strategy' = [strategy EXCEPT !.lastCreateTime = runs[t].nowMs]
    /\ UNCHANGED <<performance, remote, config, balance, history, journal>>
    /\ tickFrame

\* the asset units of a stake of whole XPR, four decimals
RECURSIVE DecimalDigits(_)
DecimalDigits(n) ==
    IF n < 10 THEN <<n>> ELSE Append(DecimalDigits(n \div 10), n % 10)

XprUnits(stake) == DecimalDigits(stake) \o <<0, 0, 0, 0>>

\* the wager a create transaction puts on the ledger
Created(d, stake) ==
    [creator |-> Me, opponent |-> NoAccount, amount |-> XprUnits(stake),
     direction |-> IF d.direction = "UP" THEN UP ELSE DOWN,
     duration |-> d.duration, started_at |-> 0, expires_at |-> now + config.challenge_expiry,
     status |-> OPEN]

\* executeCreate: the create transaction has gone through; the 'create'
\* row is written and tick() sets lastCreateTime
CreateSubmitted(t) ==
    /\ runs[t].pc = "createChallenge"
    /\ balance >= runs[t].stake
    /\ LET r == runs[t]
           info == [direction |-> r.decision.direction,
                    duration |-> r.decision.duration,
                    stakePercent |-> r.decision.stakePercent,
                    stake |-> r.stake, available |-> r.available,
                    own |-> OwnCount(remote),
                    since |-> IF history.creates = <<>> THEN -1
                              ELSE DateNow - history.creates[Len(history.creates)]]
       IN  /\ remote' = [id \in DOMAIN remote \cup {NextId} |->
                            IF id \in DOMAIN remote THEN remote[id]
                            ELSE Created(r.decision, r.stake)]
           /\ balance' = balance - r.stake
           /\ runs' = [runs EXCEPT ![t] =
                          [Logged(r, <<Event("create", NextId, info),
                                       Event("row", NextId, [action |-> "create", analysis |-> NoInfo])>>)
                           EXCEPT !.pc = "listing"]]
           /\ strategy' = [strategy EXCEPT !.lastCreateTime = r.nowMs]
           /\ history' = [history EXCEPT !.creates = Append(@, DateNow)]
           /\ journal' = logDecision(journal, NextId, "create")
    /\ UNCHANGED <<performance, config>>
    /\ tickFrame

\* executeCreate: the transaction has failed; executeCreate catches it and
\* tick() sets lastCreateTime all the same
CreateFails(t) ==
    /\ runs[t].pc = "createChallenge"
    /\ runs' = [runs EXCEPT ![t] =
                   [Logged(runs[t], <<Event("createChallenge", 0, Failed)>>)
                    EXCEPT !.pc = "listing"]]
    /\ strategy' = [strategy EXCEPT !.lastCreateTime = runs[t].nowMs]
    /\ UNCHANGED <<performance, remote, config, balance, history, journal>>
    /\ tickFrame

\* getAcceptableChallenges() has answered
Listed(t) ==
    /\ runs[t].pc = "listing"
    /\ LET found == Acceptable(remote)
           ids == [i \in 1..Len(found) |-> found[i].id]
       IN  runs' = [runs EXCEPT ![t] =
                       [Logged(runs[t], <<Event("listed", 0, [ids |-> ids])>>)
                        EXCEPT !.list = found, !.pc = "offer"]]
    /\ quiet
    /\ tickFrame

\* the acceptance loop at its next wager: the loop ends, or shouldAccept
\* refuses the wager without a prediction, or asks for one
Consider(t, favoured) ==
    /\ runs[t].pc = "offer"
    /\ runs' = [runs EXCEPT ![t] =
                   IF \/ runs[t].list = <<>>
                      \/ runs[t].activeCount >= strategy.risk.maxConcurrentChallenges
                   THEN [runs[t] EXCEPT !.pc = Then(strategy.policy, "trade")]
                   ELSE IF Refused(strategy.policy, Head(runs[t].list).row, favoured)
                   THEN [Logged(runs[t], <<Event("shouldAccept",
                                                 Head(runs[t].list).id,
                                                 [refused |-> TRUE])>>)
                         EXCEPT !.list = Tail(@)]
                   ELSE [Logged(runs[t], <<Event("shouldAccept",
                                                 Head(runs[t].list).id,
                                                 [refused |-> FALSE])>>)
                         EXCEPT !.pc = "analyzeAccept"]]
    /\ quiet
    /\ tickFrame

\* shouldAccept: the prediction has come back; the accept / skip row
Evaluated(t, a) ==
    /\ runs[t].pc = "analyzeAccept"
    /\ LET e == Head(runs[t].list)
           action == AcceptAction(strategy.policy, e.row, a)
       IN  runs' = [runs EXCEPT ![t] =
                       [Logged(runs[t],
                               <<Event("predict", e.id, Answered),
                                 Event("row", e.id, [action |-> action,
                                                     analysis |-> NoInfo])>>)
                        EXCEPT !.pc = IF action = "accept" THEN "acceptChallenge"
                                      ELSE "offer",
                               !.list = IF action = "accept" THEN @ ELSE Tail(@)]]
    /\ journal' = logDecision(journal, Head(runs[t].list).id,
                              AcceptAction(strategy.policy, Head(runs[t].list).row, a))
    /\ quietLedgers
    /\ tickFrame

\* shouldAccept: the prediction call has failed; shouldAccept returns false
EvaluateFails_Aborts(t) ==
    /\ runs[t].pc = "analyzeAccept"
    /\ runs' = [runs EXCEPT ![t] =
                   [Logged(runs[t],
                           <<Event("predict", Head(runs[t].list).id, Failed)>>)
                    EXCEPT !.pc = "thrown", !.threw = "shouldAccept"]]
    /\ quiet
    /\ tickFrame

EvaluateFails(t) ==
    /\ runs[t].pc = "analyzeAccept"
    /\ runs' = [runs EXCEPT ![t] =
                   [Logged(runs[t],
                           <<Event("predict", Head(runs[t].list).id, Failed)>>)
                    EXCEPT !.pc = "offer", !.list = Tail(@)]]
    /\ quiet
    /\ tickFrame

\* executeAccept: the accept transaction has gone through
AcceptSubmitted(t) ==
    /\ runs[t].pc = "acceptChallenge"
    /\ LET e == Head(runs[t].list)
           stake == ParseInt(e.row.amount) \div 10000
       IN  /\ remote[e.id].status = OPEN
           /\ balance >= stake
           /\ remote' = [remote EXCEPT ![e.id].opponent = Me,
                                       ![e.id].status = ACTIVE,
                                       ![e.id].started_at = now]
           /\ balance' = balance - stake
           /\ runs' = [runs EXCEPT ![t] =
                          [Logged(runs[t],
                                  <<Event("accept", e.id,
                                          [own |-> OwnCount(remote)])>>)
                           EXCEPT !.pc = "offer", !.list = Tail(@)]]
    /\ UNCHANGED <<performance, strategy, config, history, journal>>
    /\ tickFrame

\* executeAccept: the transaction has failed; executeAccept catches it
AcceptFails(t) ==
    /\ runs[t].pc = "acceptChallenge"
    /\ runs' = [runs EXCEPT ![t] =
                   [Logged(runs[t], <<Event("acceptChallenge",
                                            Head(runs[t].list).id, Failed)>>)
                    EXCEPT !.pc = "offer", !.list = Tail(@)]]
    /\ quiet
    /\ tickFrame

\* tick() has returned, or runStrategyTick has caught what it threw
TickEnd(t) ==
    /\ runs[t].pc \in {"done", "thrown"}
    /\ runs' = [runs EXCEPT ![t] = IdleRun]
    /\ quiet
    /\ tickFrame

\* time passes between two ticks: nothing, or one cooldown
Later ==
    /\ \A t \in Ticks : runs[t].pc = "idle"
    /\ history.jumps < history.started
    /\ now' = now + CREATE_COOLDOWN_MS(strategy.policy) \div 1000
    /\ history' = [history EXCEPT !.jumps = @ + 1]
    /\ UNCHANGED <<performance, remote, strategy, config, balance, runs, journal>>
    /\ UNCHANGED <<confidence_performance, today, outcomes, lastOp,
                   prevPerformance, opCount, recorded, rpcVars, query, convVars,
                   oracleVars, syncVars, resolverVars, bot>>

\* the risk part of the configuration: the defaults of the environment and
\* two settings inside the ranges of the schema
DefaultRisk ==
    [maxPercentPerChallenge |-> 5, maxConcurrentChallenges |-> 3,
     minBalanceReserve |-> 100, maxDailyLoss |-> 500]

Risks ==
    {[DefaultRisk EXCEPT !.maxConcurrentChallenges = 1, !.maxPercentPerChallenge = 2],
     [DefaultRisk EXCEPT !.maxConcurrentChallenges = 2, !.maxPercentPerChallenge = 50]}

\* the strategy is built once, with lastCreateTime = 0
Strategies ==
    {[policy |-> p, lastCreateTime |-> 0, risk |-> k] : p \in Policies, k \in Risks}

\* the clock at the start, in seconds: a wager started at 0 is over for every
\* duration the Active policy takes; and the challenge_expiry of the
\* contract's config row
StartClock == 2 * MIN_DURATION
ChallengeExpiry == 3600

\* the ledger at the start: wagers offered by another account, or one wager
\* of ours that is over and one offered wager that has expired
Offer(id, expires) ==
    [creator |-> "other", opponent |-> NoAccount, amount |-> Stake100,
     direction |-> UP, duration |-> IF id % 2 = 1 THEN 1800 ELSE 600,
     started_at |-> 0, expires_at |-> expires, status |-> OPEN]

Offers(n) == [id \in 1..n |-> Offer(id, StartClock + ChallengeExpiry)]

Settling ==
    [id \in 1..2 |->
        IF id = 1
        THEN [Offer(1, 0) EXCEPT !.opponent = Me, !.status = ACTIVE]
        ELSE Offer(3, StartClock)]

TickLedgers == {Offers(n) : n \in 0..MaxOffered} \cup {Settling}

\* the account's balance at the start, in XPR: less than the reserve and one
\* minimum stake, a few stakes, many stakes
Balances == {150, 1000, 5000}

\* today's performance at the start: no row, or a row with losses at the
\* daily limit
Losing == [d \in {1} |-> [DefaultRow EXCEPT !.total_lost = 500]]

TickIdle ==
    /\ strategy = [policy |-> "resolver", lastCreateTime |-> 0, risk |-> DefaultRisk]
    /\ runs = [t \in Ticks |-> IdleRun]
    /\ config = [paused |-> FALSE, challenge_expiry |-> ChallengeExpiry]
    /\ balance = 0
    /\ history = [started |-> 0, jumps |-> 0, creates |-> <<>>]

TickNext ==
    \/ \E t \in First :
          \/ TickStart(t)
          \/ BatchListed(t)
          \/ BatchThrows(t)
          \/ BatchItem(t)
          \/ BatchItemFails(t)
          \/ PausedRead(t)
          \/ ContextBuilt(t)
          \/ ContextThrows(t)
          \/ CountActive(t)
          \/ CountOpen(t)
          \/ \E a \in Analyses : Predicted(t, a)
          \/ PredictFails(t)
          \/ BalanceRead(t)
          \/ BalanceFails(t)
          \/ CreateSubmitted(t)
          \/ CreateFails(t)
          \/ Listed(t)
          \/ \E favoured \in BOOLEAN : Consider(t, favoured)
          \/ \E a \in Analyses : Evaluated(t, a)
          \/ EvaluateFails(t)
          \/ AcceptSubmitted(t)
          \/ AcceptFails(t)
          \/ TickEnd(t)
    \/ Later

\* two ticks of the Conservative or the Active policy on the same strategy
\* object, on a ledger without wagers of others
OverlapNext ==
    \/ \E t \in Ticks :
          \/ TickStart(t)
          \/ BatchListed(t)
          \/ PausedRead(t)
          \/ ContextBuilt(t)
          \/ CountActive(t)
          \/ CountOpen(t)
          \/ \E a \in Analyses : Predicted(t, a)
          \/ BalanceRead(t)
          \/ CreateSubmitted(t)
          \/ Listed(t)
          \/ Consider(t, FALSE)
          \/ TickEnd(t)
    \/ Later

(***************************************************************************)
(* The bot (src/bot.ts): start() and stop(), the two interval timers and   *)
(* recordPrice.  start() is suspended at `await this.initialize()` and at  *)
(* `await this.recordPrice()`; stop() has no await.  A timer is live from  *)
(* its setInterval to its clearInterval, and this.intervals holds, in the  *)
(* order of registration, the timers that were not cleared.                *)
(***************************************************************************)
MaxStarts == 2
MaxFired == 2

StartCalls == 1..MaxStarts

\* the bot after its construction
NotStarted ==
    [initialized |-> FALSE, isRunning |-> FALSE, intervals |-> <<>>,
     start |-> [c \in StartCalls |-> "idle"], stopped |-> FALSE,
     recordPrice |-> "idle", fired |-> 0]

\* the bot after one start() has returned
Started ==
    [NotStarted EXCEPT !.initialized = TRUE, !.isRunning = TRUE,
                       !.intervals = <<"price", "strategy">>,
                       !.start = [c \in StartCalls |-> IF c = 1 THEN "returned"
                                                       ELSE "idle"]]

BotIdle == journal = EmptyJournal /\ bot = NotStarted

\* the timers of one kind that are live
Live(kind) == {i \in 1..Len(bot.intervals) : bot.intervals[i] = kind}

botFrame ==
    UNCHANGED <<perfVars, rpcVars, queryVars, convVars, oracleVars, ledgerVars,
                syncVars, resolverVars, tickVars>>

\* start() up to its first await: an already running bot warns and returns
StartCalled(c) ==
    /\ bot.start[c] = "idle"
    /\ bot' = [bot EXCEPT !.start[c] = IF bot.isRunning THEN "returned"
                                       ELSE "initialize",
                          !.stopped = FALSE]
    /\ UNCHANGED journal
    /\ botFrame

\* initialize() has returned, at once or after its own awaits: isRunning is
\* set and the initial recordPrice is awaited
Initialized(c) ==
    /\ bot.start[c] = "initialize"
    /\ bot' = [bot EXCEPT !.initialized = TRUE, !.isRunning = TRUE,
                          !.start[c] = "recordPrice"]
    /\ UNCHANGED journal
    /\ botFrame

\* initialize() has thrown: start() rejects
InitializeFails(c) ==
    /\ bot.start[c] = "initialize"
    /\ ~bot.initialized
    /\ bot' = [bot EXCEPT !.start[c] = "rejected"]
    /\ UNCHANGED journal
    /\ botFrame

\* recordPrice after its oracle read: the row is inserted, or the error is
\* logged
recordPrice(answered, by) ==
    IF answered THEN journal' = insertPrice(journal, now, by)
    ELSE UNCHANGED journal

\* the initial recordPrice has returned: the two timers are registered
TimersRegistered(c, answered) ==
    /\ bot.start[c] = "recordPrice"
    /\ recordPrice(answered, c)
    /\ bot' = [bot EXCEPT !.intervals = @ \o <<"price", "strategy">>,
                          !.start[c] = "returned"]
    /\ botFrame

\* stop(): nothing when the bot is not running; otherwise every timer of
\* this.intervals is cleared
Stop ==
    /\ bot' = IF ~bot.isRunning THEN [bot EXCEPT !.stopped = TRUE]
              ELSE [bot EXCEPT !.intervals = <<>>, !.isRunning = FALSE,
                               !.stopped = TRUE]
    /\ UNCHANGED journal
    /\ botFrame

\* a live price timer calls recordPrice, whose oracle read goes out
PriceTimer ==
    /\ Live("price") # {}
    /\ bot.recordPrice = "idle"
    /\ bot.fired < MaxFired
    /\ bot' = [bot EXCEPT !.recordPrice = "getBTCPrice", !.fired = @ + 1]
    /\ UNCHANGED journal
    /\ botFrame

\* the oracle read of that recordPrice has answered or failed
PriceRecorded(answered) ==
    /\ bot.recordPrice = "getBTCPrice"
    /\ recordPrice(answered, 0)
    /\ bot' = [bot EXCEPT !.recordPrice = "idle"]
    /\ botFrame

\* a live strategy timer calls runStrategyTick
StrategyTimer(t) ==
    /\ Live("strategy") # {}
    /\ TickStart(t)

BotNext ==
    \/ \E c \in StartCalls : StartCalled(c)
    \/ \E c \in StartCalls : Initialized(c)
    \/ \E c \in StartCalls : InitializeFails(c)
    \/ \E c \in StartCalls, answered \in BOOLEAN : TimersRegistered(c, answered)
    \/ Stop
    \/ PriceTimer
    \/ \E answered \in BOOLEAN : PriceRecorded(answered)
    \/ \E t \in First :
          \/ StrategyTimer(t)
          \/ BatchListed(t)
          \/ BatchThrows(t)
          \/ BatchItem(t)
          \/ BatchItemFails(t)
          \/ TickEnd(t)

\* the ledger the running bot shares between its callbacks: two wagers of
\* ours that are over
SharedLedger ==
    [id \in 1..2 |-> [Offer(id, 0) EXCEPT !.opponent = Me, !.status = ACTIVE]]

\* the recommendations while the callbacks overlap: none to trade
SharedAnalyses == {a \in Analyses : a.direction = "NEUTRAL"}

\* the price timer and two strategy ticks of the Conservative policy,
\* interleaved at their awaits
SharedNext ==
    \/ PriceTimer
    \/ \E answered \in BOOLEAN : PriceRecorded(answered)
    \/ \E t \in Ticks :
          \/ StrategyTimer(t)
          \/ BatchListed(t)
          \/ BatchItem(t)
          \/ BatchItemFails(t)
          \/ PausedRead(t)
          \/ ContextBuilt(t)
          \/ CountActive(t)
          \/ CountOpen(t)
          \/ \E a \in SharedAnalyses : Predicted(t, a)
          \/ Listed(t)
          \/ Consider(t, FALSE)
          \/ TickEnd(t)

\* the ledger while the mirror is watched: two wagers of ours that are
\* over and one offered wager that has expired, at clock 1
MirrorLedger ==
    [id \in 1..3 |->
        IF id < 3
        THEN [creator |-> "other", opponent |-> Me, amount |-> StakeOf(id),
              direction |-> UP, duration |-> 1, started_at |-> 0,
              expires_at |-> 1, status |-> ACTIVE]
        ELSE [creator |-> "other", opponent |-> NoAccount, amount |-> StakeOf(id),
              direction |-> UP, duration |-> 1, started_at |-> 0,
              expires_at |-> 1, status |-> OPEN]]

\* no call of any part is in progress
Quiescent ==
    /\ sync.pc = "idle"
    /\ query.pc = "idle"
    /\ \A t \in Ticks : batches[t].pc = "idle" /\ runs[t].pc = "idle"

\* syncChallenges, the queries, resolveAll and expireAll, and a tick of the
\* Conservative policy, called one after the other; the queries are called
\* on a synced mirror before the first batch or tick, the rest in any order
MirrorNext ==
    \/ Quiescent /\ SyncStart
    \/ SyncRows
    \/ SyncFail
    \/ /\ \/ Quiescent /\ sync.count > 0 /\ started = 0 /\ history.started = 0
                /\ \E kind \in QueryKinds : QueryStart(kind)
          \/ QueryRows
          \/ QueryFilter
          \/ QueryFail
          \/ QueryEnd
       /\ UNCHANGED <<perfVars, rpcVars, extVars>>
    \/ \E t \in First :
          \/ Quiescent /\ BatchStart(t, "resolveAll")
          \/ Quiescent /\ BatchStart(t, "expireAll")
          \/ Enumerated(t)
          \/ EnumerateFail(t)
          \/ PriceRows(t)
          \/ PriceFail(t)
          \/ SubmitOk(t)
          \/ SubmitFail(t)
          \/ PauseEnd(t)
          \/ BatchEnd(t)
    \/ \E t \in First :
          \/ Quiescent /\ TickStart(t)
          \/ BatchListed(t)
          \/ BatchItem(t)
          \/ BatchItemFails(t)
          \/ PausedRead(t)
          \/ ContextBuilt(t)
          \/ CountActive(t)
          \/ CountOpen(t)
          \/ Listed(t)
          \/ Consider(t, FALSE)
          \/ TickEnd(t)

(***************************************************************************)
(* The specifications.  Each runs one part of the program and leaves the   *)
(* other parts as they are after construction.                             *)
(***************************************************************************)
ExtIdle ==
    ConvIdle /\ OracleIdle /\ LedgerInit /\ SyncInit /\ ResolverIdle /\ TickIdle /\ BotIdle

InitPerformance == PerfInit /\ RpcIdle /\ QueryInit /\ ExtIdle

SpecPerformance == InitPerformance /\ [][PerfNext]_vars

InitRpc ==
    RpcInit(MaxOverlapEndpoints) /\ dryRun = FALSE /\ PerfInit /\ QueryInit /\ ExtIdle

SpecRpc ==
    InitRpc /\ [][RpcNext /\ UNCHANGED <<perfVars, queryVars, extVars>>]_vars

InitFailover ==
    RpcInit(MaxEndpoints) /\ dryRun \in BOOLEAN /\ PerfInit /\ QueryInit /\ ExtIdle

SpecFailover ==
    InitFailover /\ [][FailoverNext /\ UNCHANGED <<perfVars, queryVars, extVars>>]_vars

InitQuery == QueryInit /\ PerfInit /\ RpcIdle /\ ExtIdle

SpecQuery ==
    InitQuery /\ [][QueryNext /\ UNCHANGED <<perfVars, rpcVars, extVars>>]_vars

InitPrice ==
    /\ ConvInit /\ PerfInit /\ RpcIdle /\ QueryInit /\ OracleIdle /\ LedgerInit
    /\ SyncInit /\ ResolverIdle /\ TickIdle /\ BotIdle

SpecPrice == InitPrice /\ [][ConvNext]_vars

InitOracle ==
    /\ OracleInit /\ PerfInit /\ RpcIdle /\ QueryInit /\ ConvIdle /\ LedgerInit
    /\ SyncInit /\ ResolverIdle /\ TickIdle /\ BotIdle

SpecOracle == InitOracle /\ [][OracleNext]_vars

InitSync ==
    /\ LedgerInit /\ SyncInit /\ PerfInit /\ RpcIdle /\ QueryInit /\ ConvIdle
    /\ OracleIdle /\ ResolverIdle /\ TickIdle /\ BotIdle

SpecSync == InitSync /\ [][SyncNext]_vars

InitResolver ==
    /\ ResolverIdle /\ TickIdle /\ BotIdle /\ PerfInit /\ QueryInit /\ ConvIdle /\ SyncInit
    /\ remote \in ResolverLedgers
    /\ feeds = ResolverFeeds /\ priceCall = IdlePriceCall
    /\ endpoints = 1 /\ rpc = <<0>> /\ signerRpc = <<0>> /\ up = {0} /\ RpcQuiet
    /\ dryRun \in BOOLEAN

SpecResolver == InitResolver /\ [][ResolverNext]_vars

InitTick ==
    /\ confidence_performance = [b \in Buckets |-> DefaultBucketRow]
    /\ today = 1 /\ outcomes = <<>> /\ lastOp = "none" /\ opCount = 0
    /\ recorded = [d \in Dates |-> NoCalls]
    /\ prevPerformance = [d \in {} |-> DefaultRow]
    /\ ConvIdle /\ OracleIdle /\ SyncInit /\ ResolverIdle /\ RpcIdle
    /\ query = IdleQuery
    /\ now = StartClock
    /\ strategy \in Strategies
    /\ runs = [t \in Ticks |-> IdleRun]
    /\ config \in {[paused |-> b, challenge_expiry |-> ChallengeExpiry] : b \in BOOLEAN}
    /\ balance \in Balances
    /\ history = [started |-> 0, jumps |-> 0, creates |-> <<>>]
    /\ journal = NoJournal /\ bot = Started
    /\ remote \in TickLedgers
    /\ performance \in {[d \in {} |-> DefaultRow], Losing}

SpecTick == InitTick /\ [][TickNext]_vars

InitOverlap ==
    /\ PerfInit /\ ConvIdle /\ OracleIdle /\ SyncInit /\ ResolverIdle /\ RpcIdle
    /\ query = IdleQuery
    /\ now = StartClock
    /\ strategy \in {k \in Strategies : k.policy # "resolver"}
    /\ runs = [t \in Ticks |-> IdleRun]
    /\ config = [paused |-> FALSE, challenge_expiry |-> ChallengeExpiry]
    /\ balance = 5000
    /\ history = [started |-> 0, jumps |-> 0, creates |-> <<>>]
    /\ journal = NoJournal /\ bot = Started
    /\ remote = Offers(0)

SpecOverlap == InitOverlap /\ [][OverlapNext]_vars

InitMirror ==
    /\ PerfInit /\ ConvIdle /\ SyncInit /\ ResolverIdle
    /\ query = IdleQuery /\ now = 1
    /\ feeds = ResolverFeeds /\ priceCall = IdlePriceCall
    /\ endpoints = 1 /\ rpc = <<0>> /\ signerRpc = <<0>> /\ up = {0} /\ RpcQuiet
    /\ dryRun = FALSE
    /\ strategy = [policy |-> "passive", lastCreateTime |-> 0, risk |-> DefaultRisk]
    /\ runs = [t \in Ticks |-> IdleRun]
    /\ config = [paused |-> FALSE, challenge_expiry |-> ChallengeExpiry]
    /\ balance = 5000
    /\ history = [started |-> 0, jumps |-> 0, creates |-> <<>>]
    /\ journal = NoJournal /\ bot = Started
    /\ remote = MirrorLedger

SpecMirror == InitMirror /\ [][MirrorNext]_vars

InitBot ==
    /\ PerfInit /\ RpcIdle /\ query = IdleQuery /\ now = StartClock
    /\ ConvIdle /\ OracleIdle /\ SyncInit /\ ResolverIdle /\ TickIdle /\ BotIdle
    /\ remote = Settling

SpecBot == InitBot /\ [][BotNext]_vars

InitShared ==
    /\ PerfInit /\ ConvIdle /\ OracleIdle /\ SyncInit /\ ResolverIdle /\ RpcIdle
    /\ query = IdleQuery
    /\ now = StartClock
    /\ strategy = [policy |-> "passive", lastCreateTime |-> 0, risk |-> DefaultRisk]
    /\ runs = [t \in Ticks |-> IdleRun]
    /\ config = [paused |-> FALSE, challenge_expiry |-> ChallengeExpiry]
    /\ balance = 5000
    /\ history = [started |-> 0, jumps |-> 0, creates |-> <<>>]
    /\ journal = EmptyJournal /\ bot = Started
    /\ remote = SharedLedger

SpecShared == InitShared /\ [][SharedNext]_vars

(***************************************************************************)
(* Claims about the performance ledger (checked under SpecPerformance).    *)
(***************************************************************************)
\* the length of the run of equal entries that ends the sequence
RECURSIVE RunLength(_)
RunLength(s) ==
    IF Len(s) <= 1 THEN Len(s)
    ELSE IF s[Len(s)] = s[Len(s) - 1]
         THEN 1 + RunLength(SubSeq(s, 1, Len(s) - 1))
         ELSE 1

SignedTrailingRun(s) ==
    IF s = <<>> THEN 0
    ELSE IF s[Len(s)] = "W" THEN RunLength(s) ELSE 0 - RunLength(s)

\* the streak rule: continue the sign of the streak, or reset to +1 / -1
Continued(streak, isWin) ==
    IF isWin THEN (IF streak >= 0 THEN streak + 1 ELSE 1)
    ELSE (IF streak <= 0 THEN streak - 1 ELSE -1)

\* C2: after any sequence of recordWin/recordLoss calls (no tie, no resolver
\* earnings among them) the stored currentStreak is the signed length of the
\* trailing run of equal outcomes: +k after k trailing wins, -k after k
\* trailing losses.
C2_StreakIsTrailingRun ==
    (opCount = Len(outcomes) /\ outcomes # <<>>)
        => getCurrentStreak(performance) = SignedTrailingRun(outcomes)

\* C3: the first win or loss of a new day (today's row did not exist before
\* the call) continues the streak stored for the most recent prior day.
C3_StreakCarriesOverDay ==
    (lastOp \in {"win", "loss"} /\ ~HasRow(prevPerformance, today))
        => getCurrentStreak(performance)
               = Continued(getCurrentStreak(prevPerformance), lastOp = "win")

C5_TieKeepsStreak ==
    lastOp \in {"tie", "earn"}
        => /\ getCurrentStreak(performance) = getCurrentStreak(prevPerformance)
           /\ getTotalPerformance(performance).currentStreak
                  = getTotalPerformance(prevPerformance).currentStreak

(***************************************************************************)
(* Claims about the failover RPC client (checked under SpecRpc, where the  *)
(* two timers' calls overlap, and under SpecFailover).                     *)
(***************************************************************************)
Attempts(c) == Len(calls[c].targets)
LastTarget(c) == calls[c].targets[Attempts(c)]

\* C6 as stated: a logical read invokes the transport at most N times, N the
\* number of configured endpoints.
C6_AtMostNAttempts == \A c \in Callers : Attempts(c) <= endpoints

\* C6 as amended: a logical read invokes the transport at most N + 1 times
\* (one attempt and N retries); it raises its error only after exactly N + 1
\* failed attempts.
C6_AtMostNPlusOneAttempts ==
    \A c \in Callers :
        /\ Attempts(c) <= endpoints + 1
        /\ calls[c].pc = "thrown" => Attempts(c) = endpoints + 1

\* C6 witness: with at least 2 endpoints, a call that made N + 1 attempts
C6_Witness ==
    \E c \in Callers :
        endpoints >= 2 /\ calls[c].pc = "thrown" /\ Attempts(c) = endpoints + 1

\* C7 as stated: with N >= 2 endpoints no two attempts of one logical call
\* target the same endpoint.
C7_AttemptsAllDistinct ==
    \A c \in Callers :
        endpoints >= 2 =>
            \A i, j \in 1..Attempts(c) :
                i # j => calls[c].targets[i] # calls[c].targets[j]

\* every request leaves for the endpoint the client points at; in a call
\* that no other call overlaps each attempt targets the endpoint after the
\* previous attempt's, so the first N attempts target N different endpoints
C7_NextEndpointEachRetry ==
    /\ EndpointOf(rpc) = currentIndex
    /\ \A c \in Callers :
           calls[c].alone =>
               /\ \A i \in 1..(Attempts(c) - 1) :
                      calls[c].targets[i + 1] = (calls[c].targets[i] + 1) % endpoints
               /\ \A i, j \in 1..Min(Attempts(c), endpoints) :
                      i # j => calls[c].targets[i] # calls[c].targets[j]

\* a failed attempt moves the client to index + 1 modulo N in the same step,
\* before anything else runs
C7_FailureRotates ==
    \A c \in Callers :
        calls'[c].failures = calls[c].failures + 1
            => /\ currentIndex' = (currentIndex + 1) % endpoints
               /\ rpc' = <<currentIndex'>>

\* C7 as amended: every failed attempt of a logical call rotates the client
\* to the next endpoint (index + 1 modulo N) before the next attempt is made,
\* so that in a call no other call overlaps every retry targets the endpoint
\* after the previous attempt's and the first N attempts target N different
\* endpoints (the last, N + 1st, attempt targets the first endpoint again).
C7_RotatesBeforeRetry == []C7_NextEndpointEachRetry /\ [][C7_FailureRotates]_vars

\* C7 witness: N >= 2, a call alone on the client whose N + 1 attempts all
\* failed, the last one on the endpoint of the first
C7_Witness ==
    \E c \in Callers :
        /\ endpoints >= 2
        /\ calls[c].alone
        /\ Attempts(c) = endpoints + 1
        /\ LastTarget(c) = calls[c].targets[1]
        /\ calls[c].failures = endpoints + 1

\* a read by the strategy tick that started on endpoint 1 (index 0) of 3
\* while only endpoint 3 (index 2) answers
FailoverScenario ==
    /\ endpoints = 3
    /\ up = {2}
    /\ calls["strategy"].pc # "idle"
    /\ calls["strategy"].targets[1] = 0

\* C8: given 3 endpoints and a transport that fails on endpoints 1 and 2 and
\* succeeds on endpoint 3, a logical read started on endpoint 1 does not fail,
\* and when it returns it has rotated exactly twice and returns the rows
\* served by endpoint 3.
C8_FailoverScenario ==
    FailoverScenario =>
        LET call == calls["strategy"]
        IN  /\ call.pc # "thrown"
            /\ call.failures <= 2
            /\ call.pc = "returned" =>
                   /\ call.result = RowsOf(2)
                   /\ call.failures = 2
                   /\ call.targets = <<0, 1, 2>>
                   /\ currentIndex = 2

\* C8 witness: the read of the scenario has returned
C8_Witness == FailoverScenario /\ calls["strategy"].pc = "returned"

\* C9: a logical call whose attempts all failed ends by raising the error of
\* its last attempt, and returns nothing; a call returns rows only when its
\* last attempt succeeded, and then they are that attempt's rows.
C9_LastErrorSurfaces ==
    \A c \in Callers :
        LET call == calls[c]
        IN  /\ (call.pc \in {"returned", "thrown"} /\ call.failures = Attempts(c))
                   => call.pc = "thrown"
            /\ call.pc = "thrown" =>
                   /\ call.failures = Attempts(c)
                   /\ call.error = ErrorOf(LastTarget(c), Attempts(c) - 1)
                   /\ call.result = NoRows
            /\ call.pc = "returned" =>
                   /\ call.failures = Attempts(c) - 1
                   /\ call.result = RowsOf(LastTarget(c))
                   /\ call.error = NoError

\* C9 witness: a call has raised after failing on two different endpoints
C9_Witness ==
    \E c \in Callers :
        /\ calls[c].pc = "thrown"
        /\ Attempts(c) >= 3
        /\ calls[c].targets[1] # LastTarget(c)

\* C10: every ledger write goes to the endpoint the client points at when it
\* is submitted, and a write that fails on it is retried on the next endpoint
\* before an error reaches the caller.
C10_WritesFailOver ==
    (~dryRun /\ write.pc # "idle") =>
        /\ write.target = write.indexAtSubmit
        /\ (write.pc = "thrown" /\ endpoints >= 2) => write.attempts >= 2

\* C11: in dry-run mode no operation of the action executor contacts the
\* ledger: transact never invokes the submission primitive (no attempt is
\* made, no endpoint is targeted, nothing is in flight and nothing is thrown)
\* and what it returns is the synthetic receipt.
C11_DryRunNeverSubmits ==
    dryRun =>
        /\ write.pc \in {"idle", "returned"}
        /\ write.attempts = 0
        /\ write.target = -1
        /\ write.pc = "returned" => (write.result = "dry_run" /\ write.error = NoError)

\* C11 witness: a resolve has returned in dry-run mode while no endpoint
\* answers
C11_Witness ==
    /\ dryRun
    /\ up = {}
    /\ write.pc = "returned"
    /\ write.op = "resolve"

(***************************************************************************)
(* Claims about the wager queries (checked under SpecQuery).               *)
(***************************************************************************)
\* C1: for every table the ledger returns and every reading of the clock,
\* resolvable() is a subset of the active wagers of that table: each wager it
\* returns has status Active and started_at + duration <= now at query time,
\* and no Active wager with started_at + duration <= now is left out.
C1_ResolvableSubsetOfActive ==
    (query.pc = "done" /\ query.kind = "resolvable") =>
        /\ query.result \subseteq FilterActive(query.rows)
        /\ \A id \in DOMAIN query.rows :
               id \in query.result <=>
                   /\ query.rows[id].status = ACTIVE
                   /\ query.rows[id].started_at + query.rows[id].duration
                          <= query.readAt

\* C1 witness: a table with an Active wager that has matured and another
\* wager that is left out, queried
C1_Witness ==
    /\ query.pc = "done"
    /\ query.kind = "resolvable"
    /\ \E id \in query.result :
           query.rows[id].started_at + query.rows[id].duration = query.readAt
    /\ \E id \in DOMAIN query.rows : id \notin query.result

(***************************************************************************)
(* Claims about the price conversions (checked under SpecPrice).           *)
(***************************************************************************)
\* the whole number nearest to price * 10^8, computed without rounding the
\* product
NearestToProduct(price) ==
    NearestWhole(MulSmall(MulSmall(price.m, Pow(10, 4)), Pow(10, 4)), price.e)

\* C13: for every price p with at most 8 fractional digits,
\* u64ToPrice(priceToU64(p)) is p again, and the string priceToU64 returns
\* spells the whole number nearest to p * 10^8.
C13_PriceRoundTrip ==
    /\ conv.pc \in {"u64", "back"} =>
           ParseDigits(conv.u64, <<>>) = NearestToProduct(conv.price)
    /\ conv.pc = "back" => conv.back = conv.price

(***************************************************************************)
(* Claims about the price oracle (checked under SpecOracle).               *)
(***************************************************************************)
\* C12: when the lookup returns no row getPrice fails with the not-found
\* error; when the row has no aggregate value it fails with the
\* missing-aggregate error; otherwise it returns the parsed aggregate as the
\* price, with the requested feed id.  No price is returned in an error case.
C12_GetPriceOutcomes ==
    (priceCall.fetched /\ priceCall.pc \in {"returned", "thrown"}) =>
        LET rows == priceCall.rows
            valued == rows # <<>> /\ rows[1].aggregate /\ rows[1].d_double # NoText
        IN  /\ rows = FeedLookup(feeds, priceCall.feedIndex)
            /\ rows = <<>> =>
                   /\ priceCall.pc = "thrown"
                   /\ priceCall.error = "not found"
            /\ (rows # <<>> /\ ~valued) =>
                   /\ priceCall.pc = "thrown"
                   /\ priceCall.error = "has no aggregate value"
            /\ valued =>
                   /\ priceCall.pc = "returned"
                   /\ priceCall.error = "none"
                   /\ priceCall.result.price = ParseFloat(rows[1].d_double)
                   /\ priceCall.result.feedIndex = priceCall.feedIndex
            /\ priceCall.pc = "thrown" => priceCall.result = NoPrice

\* C12 witness: the three outcomes are seen on one table: the price 95300.5
\* has been returned for BTC/USD while the table has a row without an
\* aggregate value and lacks a feed
C12_Witness ==
    /\ priceCall.pc = "returned"
    /\ priceCall.feedIndex = BTC_USD
    /\ priceCall.result.price = Number(<<9, 5, 3, 0, 0>>, <<5>>)
    /\ \E f \in DOMAIN feeds : ~HasAggregate(feeds[f])
    /\ DOMAIN feeds # FeedIds

\* an error of getPrice for a row that is there but has no aggregate value
C12_WitnessNoAggregate ==
    /\ priceCall.pc = "thrown"
    /\ priceCall.error = "has no aggregate value"

(***************************************************************************)
(* Claims about the local mirror (checked under SpecSync).                 *)
(***************************************************************************)
\* a mirror table, and a query result, without the synced_at column
WithoutSyncedAt(table) ==
    [id \in DOMAIN table |-> [table[id] EXCEPT !.synced_at = NullInt]]
RowsWithoutSyncedAt(rows) ==
    [i \in 1..Len(rows) |-> [rows[i] EXCEPT !.row.synced_at = NullInt]]

\* the second of two syncs that pulled the same rows has completed
Resynced == sync.count >= 2 /\ sync.page = sync.prevPage

\* C14: a second sync that pulls the same remote rows leaves every row of the
\* mirror, and so every derived query result (active, ours, by id), as it
\* was before that sync.
C14_SyncIdempotent ==
    Resynced =>
        /\ challenges = sync.before
        /\ dbGetActiveChallenges(challenges) = dbGetActiveChallenges(sync.before)
        /\ dbGetOurChallenges(challenges, Me) = dbGetOurChallenges(sync.before, Me)
        /\ \A id \in WagerIds :
               dbGetChallengeById(challenges, id) = dbGetChallengeById(sync.before, id)

\* C14 as amended: a second sync that pulls the same remote rows leaves every
\* column of every row of the mirror as it was, except synced_at, which it
\* sets to the time of that sync; the derived query results are the same
\* rows apart from synced_at.
C14_SyncIdempotentButSyncedAt ==
    Resynced =>
        /\ WithoutSyncedAt(challenges) = WithoutSyncedAt(sync.before)
        /\ \A id \in DOMAIN challenges : challenges[id].synced_at = sync.at
        /\ RowsWithoutSyncedAt(dbGetActiveChallenges(challenges))
               = RowsWithoutSyncedAt(dbGetActiveChallenges(sync.before))
        /\ RowsWithoutSyncedAt(dbGetOurChallenges(challenges, Me))
               = RowsWithoutSyncedAt(dbGetOurChallenges(sync.before, Me))
        /\ \A id \in WagerIds :
               RowsWithoutSyncedAt(dbGetChallengeById(challenges, id))
                   = RowsWithoutSyncedAt(dbGetChallengeById(sync.before, id))

\* C14 witness: the same rows, one of them a wager of this account, have been
\* synced a second time, a second later than the first time
C14_Witness ==
    /\ Resynced
    /\ sync.page # NoPage
    /\ \E id \in DOMAIN challenges :
           /\ challenges[id].our_role = "creator"
           /\ challenges[id].synced_at # sync.before[id].synced_at

\* C15: after every sync the our_role of each mirrored wager is the role of
\* the configured account in the row that sync pulled for it: 'creator',
\* 'opponent', or NULL.
C15_RoleFollowsRemote ==
    \A i \in 1..Len(sync.page) :
        challenges[sync.page[i].id].our_role = RoleOf(sync.page[i].row, Me)


(***************************************************************************)
(* The resolver's claims.                                                  *)
(***************************************************************************)
\* the batches that resolve, and the results they hold
Resolving == {t \in Ticks : batches[t].kind \in {"resolveAll", "resolveBattle"}}
ResultsOf(t) == {batches[t].results[i] : i \in 1..Len(batches[t].results)}

\* the Challenge object was not Active, or its duration had not passed at
\* the clock resolveBattle read
Ineligible(c, t) == c.status # ACTIVE \/ t < c.started_at + c.duration

\* C16: resolveBattle given a wager that is not Active, or whose duration
\* has not yet passed, returns a failure result, and neither an oracle read
\* nor a ledger write is made for it: no such item is ever waiting for the
\* oracle or for a submission.
C16_IneligibleRefused ==
    \A t \in Resolving :
        /\ \A r \in ResultsOf(t) :
               Ineligible(r.c, r.at) =>
                   /\ ~r.success
                   /\ r.error \in {"not_ended", "invalid_status"}
                   /\ r.reads = 0
                   /\ r.writes = 0
        /\ batches[t].pc \in {"pricing", "submitting"} =>
               ~Ineligible(Item(batches[t]).row, batches[t].at)

\* resolveBattle has refused a wager that is over but not Active
C16_Witness ==
    \E t \in Resolving : \E r \in ResultsOf(t) :
        /\ r.c.status # ACTIVE
        /\ r.at >= r.c.started_at + r.c.duration
        /\ ~r.success
        /\ r.error = "invalid_status"

\* C17: when the ledger no longer has the wager as Active at the moment
\* resolveBattle runs for it, the item fails and no resolve transaction is
\* submitted for it.
C17_StaleDetected ==
    \A t \in Resolving :
        /\ \A r \in ResultsOf(t) :
               r.found # ACTIVE => ~r.success /\ r.writes = 0
        /\ batches[t].pc = "submitting" => batches[t].found = ACTIVE

\* the resolver earnings of today's row
Earnings(perf) == IF HasRow(perf, today) THEN perf[today].resolver_earnings ELSE 0

C19_EarnedOncePerWager == \A id \in DOMAIN earned : earned[id] <= 1

\* C20: resolveAll and expireAll never raise on the failure of an item: a
\* batch that rejects had enumerated nothing; the results are those of the
\* enumerated wagers, one each and in their order, and the returned list is
\* as long as the enumerated one.
C20_OneResultPerItem ==
    \A t \in Ticks :
        batches[t].kind \in {"resolveAll", "expireAll"} =>
            /\ batches[t].pc = "failed" =>
                   batches[t].list = <<>> /\ batches[t].results = <<>>
            /\ batches[t].pc # "enumerating" =>
                   /\ Len(batches[t].results) <= Len(batches[t].list)
                   /\ \A i \in 1..Len(batches[t].results) :
                          batches[t].results[i].challengeId = batches[t].list[i].id
            /\ batches[t].pc = "returned" =>
                   Len(batches[t].results) = Len(batches[t].list)

\* a batch of two wagers has returned two results, the first one a failure
C20_Witness ==
    \E t \in Ticks :
        /\ batches[t].kind \in {"resolveAll", "expireAll"}
        /\ batches[t].pc = "returned"
        /\ Len(batches[t].list) = 2
        /\ Len(batches[t].results) = 2
        /\ ~batches[t].results[1].success
        /\ batches[t].list[1].id # batches[t].list[2].id

(***************************************************************************)
(* The claims about a tick of the trading policies.                        *)
(***************************************************************************)
\* the places in the record of a tick where an event of one of these kinds is
Places(r, kinds) == {i \in 1..Len(r.log) : r.log[i].kind \in kinds}

\* the pcs of resolveExpired and expireExpired
InBatches == {"resolveAll", "resolving", "expireAll", "expiring"}

\* C21: no failure of a remote call escapes resolveAll or expireAll, the
\* enumeration read included: a tick is never ended by an exception out of
\* one of its two batches, so that a failed resolve phase never keeps the
\* expire phase of the same tick from running.
C21_BatchesNeverThrow ==
    \A t \in Ticks :
        ~(runs[t].pc = "thrown" /\ runs[t].threw \in {"resolveAll", "expireAll"})

\* C22: within one tick of any of the three policies every resolve and every
\* expire submission comes before any paused-flag read, prediction call,
\* create submission or accept submission of that tick.
C22_BatchesBeforeTrading ==
    \A t \in Ticks :
        /\ \A i \in Places(runs[t], {"resolve", "expire"}) :
               \A j \in Places(runs[t], {"paused_read", "predict", "create", "accept"}) :
                   i < j
        /\ runs[t].pc \in InBatches =>
               Places(runs[t], {"paused_read", "predict", "create", "accept"}) = {}

\* a tick has resolved a wager, expired another and then submitted a create
C22_Witness ==
    \E t \in Ticks :
        /\ Places(runs[t], {"resolve"}) # {}
        /\ Places(runs[t], {"expire"}) # {}
        /\ Places(runs[t], {"create"}) # {}

\* C23: the resolve-only policy never submits a create or an accept: its
\* tick is resolveAll and then expireAll and nothing else, its shouldCreate
\* returns null and its shouldAccept returns false whatever is recommended.
C23_ResolverNeverTrades ==
    strategy.policy = "resolver" =>
        /\ \A t \in Ticks :
               /\ runs[t].pc \in InBatches \cup {"idle", "done", "thrown"}
               /\ Places(runs[t], {"paused_read", "predict", "row", "create",
                                   "accept"}) = {}
               /\ runs[t].pc = "done" => runs[t].threw = "none"
        /\ \A a \in Analyses :
               /\ shouldCreate("resolver", a, strategy.risk) = NoDecision
               /\ \A id \in DOMAIN remote, favoured \in BOOLEAN :
                      ~shouldAccept("resolver", remote[id], a, favoured)

\* a tick of the resolve-only policy has returned after a resolve and an
\* expire submission, with money on the account
C23_Witness ==
    /\ strategy.policy = "resolver"
    /\ balance >= 5000
    /\ \E t \in Ticks :
           /\ runs[t].pc = "done"
           /\ Places(runs[t], {"resolve"}) # {}
           /\ Places(runs[t], {"expire"}) # {}

\* the paused-flag read of a tick has answered "paused"
ReadPaused(r) ==
    \E i \in Places(r, {"paused_read"}) : r.log[i].info.paused

\* C24: under the Conservative and the Active policy, when the remote config
\* reports paused the tick ends after its resolve and expire phases: no
\* prediction call, no Decision row of a trade, no create and no accept.
C24_PausedEndsTick ==
    \A t \in Ticks :
        ReadPaused(runs[t]) =>
            /\ Places(runs[t], {"predict", "row", "create", "accept"}) = {}
            /\ runs[t].pc = "done"

\* a tick of a trading policy has read "paused" after resolving a wager,
\* with an open wager of another account left on the ledger
C24_Witness ==
    /\ strategy.policy \in {"passive", "aggressive"}
    /\ \E id \in DOMAIN remote : remote[id].status = OPEN
    /\ \E t \in Ticks :
           /\ ReadPaused(runs[t])
           /\ Places(runs[t], {"resolve"}) # {}

\* C25: under both the Conservative and the Active policy a tick that starts
\* while today's totalLost - totalWon is at or above the configured maximum
\* daily loss submits no create and no accept.
C25_NoTradeAfterDailyLoss ==
    \A t \in Ticks :
        runs[t].lossy => Places(runs[t], {"create", "accept"}) = {}

\* C26: an accept is submitted only while the account's own open plus active
\* wagers, those created or accepted earlier in the tick included, are fewer
\* than maxConcurrentChallenges.
C26_AcceptBelowCap ==
    \A t \in Ticks : \A i \in Places(runs[t], {"accept"}) :
        runs[t].log[i].info.own < strategy.risk.maxConcurrentChallenges

\* C27: with overlapping ticks too, a create is submitted only if the
\* cooldown has passed since the previous creation and the own open plus
\* active count is below the cap: no two creates within one cooldown window,
\* and none that takes the count above the cap.
C27_CreateGateHolds ==
    \A t \in Ticks : \A i \in Places(runs[t], {"create"}) :
        LET info == runs[t].log[i].info
        IN  /\ info.own < strategy.risk.maxConcurrentChallenges
            /\ info.since = -1 \/ info.since >= CREATE_COOLDOWN_MS(strategy.policy)

\* the recommendation allows a creation: UP or DOWN with a confidence of at
\* least 75 (Conservative) or 50 (Active)
Qualifies(a) ==
    /\ a.direction \in {"UP", "DOWN"}
    /\ a.confidence >= (IF strategy.policy = "passive" THEN 75 ELSE 50)

IsCreateAnalysis(e) == e.kind = "row" /\ e.info.action = "analyze_create"

\* C28: a create is submitted only when the recommended direction is UP or
\* DOWN and the confidence is at least the policy's threshold; the raw
\* recommendation is appended as an analyze_create Decision row as soon as it
\* has come back, before that check and whatever its outcome.
C28_CreateNeedsConfidence ==
    \A t \in Ticks :
        LET r == runs[t]
        IN  /\ \A i \in Places(r, {"predict"}) :
                   (r.log[i].id = 0 /\ r.log[i].info.answered) =>
                       /\ i < Len(r.log)
                       /\ IsCreateAnalysis(r.log[i + 1])
            /\ \A i \in Places(r, {"create"}) :
                   \E j \in 1..(i - 1) :
                       /\ IsCreateAnalysis(r.log[j])
                       /\ Qualifies(r.log[j].info.analysis)
            /\ r.pc \in {"getBalance", "createChallenge"} =>
                   /\ IsCreateAnalysis(r.log[Len(r.log)])
                   /\ Qualifies(r.log[Len(r.log)].info.analysis)
            /\ \A i \in 1..Len(r.log) :
                   (IsCreateAnalysis(r.log[i]) /\ ~Qualifies(r.log[i].info.analysis)) =>
                       /\ Places(r, {"create"}) = {}
                       /\ r.decision = NoDecision

\* the Conservative policy has created a wager on a recommendation of
\* exactly 75, whose row comes before the create
C28_Witness ==
    /\ strategy.policy = "passive"
    /\ \E t \in Ticks : \E i \in Places(runs[t], {"create"}) :
           \E j \in 1..(i - 1) :
               /\ IsCreateAnalysis(runs[t].log[j])
               /\ runs[t].log[j].info.analysis.confidence = 75

\* the shortest and the longest duration the game offers
ShortestDuration == 300
LongestDuration == 86400

\* C29: the duration and the stake percentage of every submitted create lie
\* inside the bounds of the policy, whatever was recommended: the duration
\* within 1800..3600 for Active and within the durations of the game for
\* Conservative, the percentage at most maxPercentPerChallenge and, for
\* Conservative, at most 3.
C29_CreateInsideBounds ==
    \A t \in Ticks : \A i \in Places(runs[t], {"create"}) :
        LET info == runs[t].log[i].info
        IN  /\ info.stakePercent <= strategy.risk.maxPercentPerChallenge
            /\ strategy.policy = "passive" =>
                   /\ info.stakePercent <= 3
                   /\ info.duration >= ShortestDuration
                   /\ info.duration <= LongestDuration
            /\ strategy.policy = "aggressive" =>
                   /\ info.duration >= 1800
                   /\ info.duration <= 3600

C31_StakeWithinPercent ==
    \A t \in Ticks :
        \A i \in Places(runs[t], {"create"}) :
            LET info == runs[t].log[i].info
                held == info.available + strategy.risk.minBalanceReserve
            IN  /\ info.stake * 100 <= strategy.risk.maxPercentPerChallenge * held
                /\ strategy.policy = "passive" =>
                       info.stake * 100 <= MAX_STAKE_PERCENT * held

\* the wagers of the list a tick was given, and those its loop has passed
\* to shouldAccept
ListedIds(r) ==
    UNION {{r.log[i].info.ids[k] : k \in 1..Len(r.log[i].info.ids)} :
              i \in Places(r, {"listed"})}

ConsideredIds(r) == {r.log[i].id : i \in Places(r, {"shouldAccept"})}

\* the accept / skip rows a tick has written for a wager
VerdictRows(r, id) ==
    {i \in Places(r, {"row"}) :
        r.log[i].id = id /\ r.log[i].info.action \in {"accept", "skip"}}

\* C32: every acceptable wager the acceptance loop of a tick has considered
\* has exactly one Decision row tagged accept or skip for its id, whether
\* or not it is accepted and whatever the reason it is rejected.
C32_OneRowPerConsidered ==
    \A t \in Ticks :
        LET r == runs[t]
        IN  r.pc = "done" =>
                \A id \in ConsideredIds(r) : Cardinality(VerdictRows(r, id)) = 1

\* the calls of one opportunity that have failed in a tick: those of the
\* creation and those of a wager of the list
FailedCreation(r) ==
    {i \in Places(r, {"predict", "getBalance", "createChallenge"}) :
        r.log[i].id = 0 /\ r.log[i].info = Failed}

FailedAccepts(r) ==
    {i \in Places(r, {"predict", "acceptChallenge"}) :
        r.log[i].id # 0 /\ r.log[i].info = Failed}

\* C33: a failure of the prediction call, the balance read or the
\* submission for one opportunity does not abort the tick: after a failed
\* creation the acceptance phase still runs, and after a failed evaluation
\* or accept of one wager every remaining acceptable wager of the tick is
\* still evaluated.
C33_FailureDoesNotAbort ==
    \A t \in Ticks :
        LET r == runs[t]
        IN  /\ FailedCreation(r) \cup FailedAccepts(r) # {} => r.pc # "thrown"
            /\ (FailedCreation(r) # {} /\ r.pc = "done") =>
                   Places(r, {"listed"}) # {}
            /\ (FailedAccepts(r) # {} /\ r.pc = "done") =>
                   ConsideredIds(r) = ListedIds(r)

\* a tick has returned after a failed creation, a failed evaluation of the
\* first wager of its list and an evaluation of the second
C33_Witness ==
    \E t \in Ticks :
        LET r == runs[t]
        IN  /\ r.pc = "done"
            /\ FailedCreation(r) # {}
            /\ \E i \in FailedAccepts(r) :
                   \E j \in Places(r, {"shouldAccept"}) :
                       i < j /\ r.log[j].id # r.log[i].id
            /\ Cardinality(ListedIds(r)) = 2

C36_PausesBetweenItems ==
    \A t \in Ticks :
        LET b == batches[t]
            n == Len(b.list)
        IN  (b.kind \in {"resolveAll", "expireAll"} /\ b.pc # "enumerating") =>
                /\ b.pc = "pausing" => Len(b.results) < n
                /\ b.pauses = IF Len(b.results) < n THEN Len(b.results)
                              ELSE Max(0, n - 1)
                /\ b.pc = "returned" =>
                       Len(b.results) = n /\ b.pauses = Max(0, n - 1)

\* a batch of two items has returned after one pause
C36_Witness ==
    \E t \in Ticks :
        /\ batches[t].kind \in {"resolveAll", "expireAll"}
        /\ batches[t].pc = "returned"
        /\ Len(batches[t].list) = 2
        /\ batches[t].pauses = 1

\* C37: a failed resolveBattle leaves the local ledgers unchanged: the step
\* that returns success = false appends no Decision row and leaves the
\* resolver earnings as they were; a 'resolve' row and the earnings
\* increment appear only with a resolve transaction the ledger has accepted.
C37_LedgersFollowAcceptance ==
    [][\A t \in Ticks :
           LET b == batches[t]
               after == batches'[t]
           IN  Len(after.results) = Len(b.results) + 1 =>
                   LET result == after.results[Len(after.results)]
                       written == \/ performance' # performance
                                  \/ journal'.decisions # journal.decisions
                   IN  /\ ~result.success => ~written
                       /\ written =>
                              /\ result.txId = "tx"
                              /\ remote'[result.challengeId].status = RESOLVED]_vars



\* the performance table after a sequence of record calls made with one
\* date and without a confidence
Call(kind, amount) == [kind |-> kind, amount |-> amount]

RECURSIVE Replayed(_, _, _)
Replayed(perf, sequence, date) ==
    IF sequence = <<>> THEN perf
    ELSE LET before == Replayed(perf, SubSeq(sequence, 1, Len(sequence) - 1), date)
             call == sequence[Len(sequence)]
         IN  CASE call.kind = "win" ->
                      updateStreak(WinRow(before, call.amount, date), TRUE, date)
               [] call.kind = "loss" ->
                      updateStreak(LossRow(before, call.amount, date), FALSE, date)
               [] call.kind = "tie" ->
                      IF HasRow(before, date)
                      THEN [before EXCEPT ![date].ties = @ + 1]
                      ELSE PutRow(before, date, [DefaultRow EXCEPT !.ties = 1])

\* 3 wins of 10, 5, 5 and 1 loss of 8
ExampleCalls ==
    <<Call("win", 10), Call("win", 5), Call("loss", 8), Call("win", 5)>>

\* C34: for any sequence of recordWin(amount), recordLoss(amount) and
\* recordTie calls on one day, getPerformance returns wins, losses and ties
\* equal to the number of calls of each kind, totalWon and totalLost equal
\* to the sums of the amounts, and winRate = wins x 100 / (wins + losses +
\* ties), 0 when nothing was recorded; 3 wins of 10, 5, 5 and 1 loss of 8
\* give 75%, 20 and 8.
C34_DailyPerformanceCounts ==
    /\ \A d \in Dates :
           LET perf == getPerformance(performance, d)
               n == recorded[d].wins + recorded[d].losses + recorded[d].ties
           IN  /\ perf.wins = recorded[d].wins
               /\ perf.losses = recorded[d].losses
               /\ perf.ties = recorded[d].ties
               /\ perf.totalWon = recorded[d].won
               /\ perf.totalLost = recorded[d].lost
               /\ perf.winRate.num * n = recorded[d].wins * 100 * perf.winRate.den
               /\ n = 0 => perf.winRate.num = 0
    /\ LET perf == getPerformance(Replayed(performance, ExampleCalls, MaxDay + 1),
                                  MaxDay + 1)
       IN  /\ perf.wins = 3 /\ perf.losses = 1 /\ perf.ties = 0
           /\ perf.winRate.num = 75 * perf.winRate.den
           /\ perf.totalWon = 20 /\ perf.totalLost = 8

\* a win, a loss and a tie were recorded today, after a day with calls of
\* its own
C34_Witness ==
    /\ today > 1
    /\ recorded[1].wins + recorded[1].losses + recorded[1].ties > 0
    /\ recorded[today].wins > 0
    /\ recorded[today].losses > 0



\* the rows one tick has written, as its record has them, in order
RECURSIVE RowsWritten(_)
RowsWritten(events) ==
    IF events = <<>> THEN <<>>
    ELSE LET e == Head(events)
             row == IF e.kind = "row"
                    THEN <<[challengeId |-> e.id, action |-> e.info.action]>>
                    ELSE IF e.kind = "resolve"
                    THEN <<[challengeId |-> e.id, action |-> "resolve"]>>
                    ELSE <<>>
         IN  row \o RowsWritten(Tail(events))

\* the rows of `part` are rows of `whole`, in the same order
RECURSIVE IsSubSeq(_, _)
IsSubSeq(part, whole) ==
    IF part = <<>> THEN TRUE
    ELSE IF whole = <<>> THEN FALSE
    ELSE IF Head(part) = Head(whole) THEN IsSubSeq(Tail(part), Tail(whole))
    ELSE IsSubSeq(part, Tail(whole))

\* C35: when the price timer's recordPrice and one or more strategy ticks
\* interleave at their awaits, every performance increment, Decision row
\* and price row issued by any of them is in the tables: the earnings are
\* the sum of the increments, and no row is lost or overwritten.
C35_NothingLostByOverlap ==
    /\ getTotalPerformance(performance).resolverEarnings = journal.issued.earnings
    /\ Len(journal.decisions) = journal.issued.decisions
    /\ Len(journal.price_history) = journal.issued.prices
    /\ \A t \in Ticks : IsSubSeq(RowsWritten(runs[t].log), journal.decisions)

\* two ticks are in progress, each has resolved a wager and written rows,
\* and a price row was written in between
C35_Witness ==
    /\ \A t \in Ticks :
           /\ runs[t].pc \notin {"idle", "done", "thrown"}
           /\ Places(runs[t], {"resolve"}) # {}
           /\ Places(runs[t], {"row"}) # {}
    /\ journal.price_history # <<>>
    /\ journal.issued.earnings > ResolverReward(SharedLedger[1])

\* C40: after stop() has returned, and until start() is called again, no
\* interval timer of the bot is registered, so that no price record and no
\* strategy tick is started; and at most one price timer and one strategy
\* timer exist at any time, however start() and stop() interleave.
C40_StoppedMeansNoTimers ==
    /\ bot.stopped => bot.intervals = <<>>
    /\ Cardinality(Live("price")) <= 1
    /\ Cardinality(Live("strategy")) <= 1



\* C38: the local wager mirror is written only by syncChallenges: the
\* derived queries, resolveAll, expireAll and every strategy tick leave all
\* mirrored rows as they are, and no operation deletes a mirrored row.
C38_MirrorWrittenBySyncOnly ==
    [][/\ challenges' # challenges =>
              /\ sync.pc = "fetching"
              /\ sync'.count = sync.count + 1
              /\ challenges' = upsertChallenges(challenges, sync'.page, Me, sync'.at)
       /\ DOMAIN challenges \subseteq DOMAIN challenges']_vars

\* a tick has returned after resolving a wager that the mirror, synced
\* before the tick, still has as Active
C38_Witness ==
    /\ sync.count > 0
    /\ \E t \in Ticks :
           /\ runs[t].pc = "done"
           /\ \E i \in Places(runs[t], {"resolve"}) :
                  LET id == runs[t].log[i].id
                  IN  /\ id \in DOMAIN challenges
                      /\ challenges[id].status = ACTIVE
                      /\ remote[id].status = RESOLVED


======================================================================
